---- MODULE Spec2Model ----
(***************************************************************************)
(* Model of the x86 paging core of thor (src/thor/kernel/src/arch/x86/     *)
(* paging.cpp / paging.hpp): PageSpace, PageBinding, PageContext and the   *)
(* TLB shootdown protocol between them.                                    *)
(*                                                                         *)
(* Granularity: every section of code that runs under a PageSpace::_mutex  *)
(* is one atomic step; code between two lock sections of the same function *)
(* that touches only CPU-private fields is merged with the adjacent step.  *)
(* The completion callbacks run in a step of their own, after the lock     *)
(* section that collected them and before whatever the function does next. *)
(***************************************************************************)
EXTENDS Integers, Sequences, FiniteSets, TLC

\* ------------------------------------------------------------------------
\* Bounds of the model.
\* ------------------------------------------------------------------------

\* Binding slots per CPU. The source has 8 (paging.hpp:76); the model scales
\* the pool down so that LRU eviction of a bound slot is reachable.
maxPcidCount == 2

\* Number of PageSpace objects that exist over a run.
NumSpaces == 3

\* Number of ShootNodes (each is submitted at most once).
MaxNodes == 2

\* Number of operations started over a run: calls of activate and of
\* submitShootdown, and drops of a last reference. Shootdown IPIs are free.
MaxOps == 5

\* Number of page-table operations (map, unmap, isMapped) over a run.
MaxPtOps == 3

\* The properties of a map are stated of every combination of physical
\* address, flags and caching mode for the calls that follow fewer than
\* FullCalls earlier calls; the steps of the model take StepArguments.
FullCalls == 2

\* Number of consecutive pages that virtual addresses and ranges are drawn
\* from; they straddle the boundary between two page tables.
RangePages == 3

\* ------------------------------------------------------------------------
\* Program constants.
\* ------------------------------------------------------------------------

kPageSize == 4096

\* ------------------------------------------------------------------------
\* Universe.
\* ------------------------------------------------------------------------

\* CPU 1 supports PCIDs, CPU 2 does not (getCpuData()->havePcids).
Cpus == {1, 2}

havePcids(c) == c = 1

Slots == 0 .. (maxPcidCount - 1)

Bindings == Cpus \X Slots

Spaces == 1 .. NumSpaces

Nodes == 1 .. MaxNodes

\* The empty frigg::WeakPtr / SharedPtr.
NullSpace == 0

\* PageContext::_primaryBinding == nullptr.
NullBinding == -1

\* The PCID that CPU bring-up gives to slot i of CPU c (setupPcid).
Pcid(c, i) == IF havePcids(c) THEN i + 1 ELSE 0

\* ShootNode::address and ShootNode::size: node n covers n pages from page n.
NodeAddress(n) == n * kPageSize

NodeSize(n) == n * kPageSize

VARIABLES
    \* PageSpace
    alive,               \* the space still has a strong reference
    numBindings,         \* PageSpace::_numBindings
    shootSequence,       \* PageSpace::_shootSequence
    shootQueue,          \* PageSpace::_shootQueue, front to back
    \* ShootNode
    nodeSpace,           \* the space the node was submitted to
    nodeSeq,             \* ShootNode::_sequence
    bindingsToShoot,     \* ShootNode::_bindingsToShoot
    called,              \* how often shotDown(node) was invoked
    calledBy,            \* the function that invoked shotDown(node) last
    ipi,                 \* the node's submitShootdown called sendShootdownIpi
    \* PageBinding
    boundSpace,          \* PageBinding::_boundSpace (weak)
    wasRebound,          \* PageBinding::_wasRebound
    primaryStamp,        \* PageBinding::_primaryStamp
    alreadyShotSequence, \* PageBinding::_alreadyShotSequence
    \* PageContext and CPU
    nextStamp,           \* PageContext::_nextStamp
    primaryBinding,      \* PageContext::_primaryBinding (a slot)
    cr3,                 \* the value last moved to %cr3
    pc,                  \* where the CPU is inside activate / shootdown
    loc,                 \* the locals of the function the CPU is in
    \* History
    tlb,                 \* the space whose translations a slot's TLB tag may hold
    waiting,             \* per node: bindings counted at enqueue that have not visited it
    owed,                \* per node: bindings counted at enqueue that still may hold its pages
    snapshot,            \* per binding: the _shootSequence its rebind read, 0 when unbound
    \* Page tables
    memory,              \* the entries of the page-table frames that differ from InitialMemory
    allocated,           \* the number of frames the allocators have handed out
    failed,              \* the source line of the assertion that failed, or 0
    returned,            \* the function that returned last and its return value
    ptOps,               \* the number of page-table operations called
    mapped,              \* per tree and page: the arguments of the map that installed its leaf
    \* Locks
    mutex,               \* PageSpace::_mutex: the CPU that holds it, or 0
    stack                \* per CPU: the calls in progress, innermost last

vars == << alive, numBindings, shootSequence, shootQueue,
           nodeSpace, nodeSeq, bindingsToShoot, called, calledBy, ipi,
           boundSpace, wasRebound, primaryStamp, alreadyShotSequence,
           nextStamp, primaryBinding, cr3, pc, loc, tlb, waiting, owed, snapshot,
           memory, allocated, failed, returned, ptOps, mapped, mutex, stack >>

spaceVars == << alive, numBindings, shootSequence, shootQueue >>

nodeVars == << nodeSpace, nodeSeq, bindingsToShoot, called, calledBy, ipi >>

bindingVars == << boundSpace, wasRebound, primaryStamp, alreadyShotSequence >>

cpuVars == << nextStamp, primaryBinding, cr3, pc, loc >>

histVars == << tlb, waiting, owed, snapshot >>

ptVars == << memory, allocated, failed, returned, ptOps, mapped >>

protocolVars == << spaceVars, nodeVars, bindingVars, cpuVars, histVars >>

lockVars == << mutex, stack >>

NoLocals == [k |-> 0, space |-> NullSpace, held |-> NullSpace,
             complete |-> << >>, target_seq |-> 0]

Init ==
    /\ alive = [s \in Spaces |-> TRUE]
    /\ numBindings = [s \in Spaces |-> 0]
    /\ shootSequence = [s \in Spaces |-> 0]
    /\ shootQueue = [s \in Spaces |-> << >>]
    /\ nodeSpace = [n \in Nodes |-> NullSpace]
    /\ nodeSeq = [n \in Nodes |-> 0]
    /\ bindingsToShoot = [n \in Nodes |-> 0]
    /\ called = [n \in Nodes |-> 0]
    /\ calledBy = [n \in Nodes |-> "none"]
    /\ ipi = [n \in Nodes |-> FALSE]
    /\ boundSpace = [b \in Bindings |-> NullSpace]
    /\ wasRebound = [b \in Bindings |-> FALSE]
    /\ primaryStamp = [b \in Bindings |-> 0]
    /\ alreadyShotSequence = [b \in Bindings |-> 0]
    /\ nextStamp = [c \in Cpus |-> 1]
    /\ primaryBinding = [c \in Cpus |-> NullBinding]
    /\ cr3 = [c \in Cpus |-> << >>]
    /\ pc = [c \in Cpus |-> "idle"]
    /\ loc = [c \in Cpus |-> NoLocals]
    /\ tlb = [b \in Bindings |-> NullSpace]
    /\ waiting = [n \in Nodes |-> {}]
    /\ owed = [n \in Nodes |-> {}]
    /\ snapshot = [b \in Bindings |-> 0]
    /\ memory = << >>
    /\ allocated = 0
    /\ failed = 0
    /\ returned = [fn |-> "none", value |-> 0]
    /\ ptOps = 0
    /\ mapped = << >>
    /\ mutex = [s \in Spaces |-> 0]
    /\ stack = [c \in Cpus |-> << >>]

\* ------------------------------------------------------------------------
\* Helpers.
\* ------------------------------------------------------------------------

\* frigg::WeakPtr::grab(): the strong reference, or null when the weak
\* pointer is empty or the space has lost all strong references.
Grab(b) ==
    IF boundSpace[b] # NullSpace /\ alive[boundSpace[b]]
    THEN boundSpace[b] ELSE NullSpace

\* The binding a CPU is rebinding right now (between the two lock sections
\* of rebind), as a set.
Rebinding == { b \in Bindings :
                 /\ pc[b[1]] \in {"rb_complete", "rb_bind"}
                 /\ loc[b[1]].k = b[2] }

\* The bindings that _numBindings of space s counts.
Counted(s) == { b \in Bindings : boundSpace[b] = s /\ b \notin Rebinding }

\* std::atomic<unsigned int>::fetch_sub(1): the stored value afterwards. A
\* decrement of 0 wraps; the wrapped value 2^32 - 1 is beyond TLC's
\* integers and is kept as the largest one TLC has.
FetchSub(v) == IF v = 0 THEN 2147483647 ELSE v - 1

\* Variant: every decrement signals completion.
SignalsAlways(old) == old >= 1

\* The test on fetch_sub's return value that signals completion.
SignalsCompletion(old) == old = 1

\* Variant: the scan goes on while current->_sequence >= _alreadyShotSequence.
RECURSIVE VisitedFromInclusive(_, _, _)
VisitedFromInclusive(q, idx, already) ==
    IF idx = 0 THEN {}
    ELSE IF nodeSeq[q[idx]] >= already
         THEN {q[idx]} \cup VisitedFromInclusive(q, idx - 1, already)
         ELSE {}

\* The nodes the backward scan visits: from the tail, while
\* current->_sequence > _alreadyShotSequence, until there is no predecessor.
RECURSIVE VisitedFrom(_, _, _)
VisitedFrom(q, idx, already) ==
    IF idx = 0 THEN {}
    ELSE IF nodeSeq[q[idx]] > already
         THEN {q[idx]} \cup VisitedFrom(q, idx - 1, already)
         ELSE {}

\* The scan of shootdown() and rebind(): decrement every visited node,
\* erase those that reach zero and collect them (push_front while walking
\* backwards: the collected list is in queue order).
ScanQueue(q, already) ==
    LET vis  == VisitedFrom(q, Len(q), already)
        done == { n \in vis : SignalsCompletion(bindingsToShoot[n]) }
    IN  [ visited  |-> vis,
          bts      |-> [ n \in Nodes |-> IF n \in vis
                                         THEN FetchSub(bindingsToShoot[n])
                                         ELSE bindingsToShoot[n] ],
          queue    |-> SelectSeq(q, LAMBDA n : n \notin done),
          complete |-> SelectSeq(q, LAMBDA n : n \in done) ]

\* The pages the invalidatePage loop of shootdown() covers for a node.
ShotPages(n) ==
    { NodeAddress(n) + pg * kPageSize :
        pg \in { j \in 0 .. (NodeSize(n) \div kPageSize) : j * kPageSize < NodeSize(n) } }

\* The pages of [address, address + size).
NodePages(n) ==
    { j * kPageSize :
        j \in { k \in (NodeAddress(n) \div kPageSize) .. ((NodeAddress(n) + NodeSize(n)) \div kPageSize) :
                  /\ k * kPageSize >= NodeAddress(n)
                  /\ k * kPageSize < NodeAddress(n) + NodeSize(n) } }

\* The history after a set of bindings dropped every translation they held.
Discard(ow, bs) == [ n \in Nodes |-> ow[n] \ bs ]

\* The history after binding b visited the nodes vis in a scan.
Visit(wt, vis, b) == [ n \in Nodes |-> IF n \in vis THEN wt[n] \ {b} ELSE wt[n] ]

\* The invocation of the completion callbacks of a collected list.
Invoke(list, who) ==
    LET ns == { list[j] : j \in 1 .. Len(list) } IN
    /\ called' = [ n \in Nodes |-> IF n \in ns THEN called[n] + 1 ELSE called[n] ]
    /\ calledBy' = [ n \in Nodes |-> IF n \in ns THEN who ELSE calledBy[n] ]

\* ------------------------------------------------------------------------
\* PageBinding::makePrimary, on slot i of CPU c, from the binding state
\* (wr, bs) and history (tl, ow) that the caller leaves.
\* ------------------------------------------------------------------------

\* Variant: %cr3 is written only when the slot is not the primary one.
WritesCr3IfNotPrimary(c, i, wr) == primaryBinding[c] # i

\* Variant: %cr3 is written only after a rebind.
WritesCr3IfRebound(c, i, wr) == wr[<<c, i>>]

\* if(_wasRebound || context->_primaryBinding != this)
WritesCr3(c, i, wr) == wr[<<c, i>>] \/ primaryBinding[c] # i

Cr3Value(c, i, space) ==
    [ root |-> space, pcid |-> Pcid(c, i), noflush |-> havePcids(c) ]

\* Variant: _nextStamp is read without the increment.
makePrimaryKeepsStamp(c, i, wr, bs, tl, ow) ==
    LET b     == <<c, i>>
        space == bs[b]
        write == WritesCr3(c, i, wr)
        flush == write /\ ~havePcids(c)
        mine  == { x \in Bindings : x[1] = c }
    IN  /\ cr3' = IF write THEN [cr3 EXCEPT ![c] = Cr3Value(c, i, space)] ELSE cr3
        /\ wasRebound' = [wr EXCEPT ![b] = FALSE]
        /\ primaryStamp' = [primaryStamp EXCEPT ![b] = nextStamp[c]]
        /\ nextStamp' = nextStamp
        /\ primaryBinding' = [primaryBinding EXCEPT ![c] = i]
        /\ tlb' = [ x \in Bindings |->
                      IF x = b THEN space
                      ELSE IF flush /\ x \in mine THEN NullSpace ELSE tl[x] ]
        /\ owed' = IF flush THEN Discard(ow, mine) ELSE ow

makePrimary(c, i, wr, bs, tl, ow) ==
    LET b     == <<c, i>>
        space == bs[b]
        write == WritesCr3(c, i, wr)
        \* Without PCIDs a write to %cr3 drops every non-global translation.
        flush == write /\ ~havePcids(c)
        mine  == { x \in Bindings : x[1] = c }
    IN  /\ cr3' = IF write THEN [cr3 EXCEPT ![c] = Cr3Value(c, i, space)] ELSE cr3
        /\ wasRebound' = [wr EXCEPT ![b] = FALSE]
        /\ primaryStamp' = [primaryStamp EXCEPT ![b] = nextStamp[c]]
        /\ nextStamp' = [nextStamp EXCEPT ![c] = @ + 1]
        /\ primaryBinding' = [primaryBinding EXCEPT ![c] = i]
        /\ tlb' = [ x \in Bindings |->
                      IF x = b THEN space
                      ELSE IF flush /\ x \in mine THEN NullSpace ELSE tl[x] ]
        /\ owed' = IF flush THEN Discard(ow, mine) ELSE ow

\* A space that something has referred to. Spaces come into use in the
\* order of their numbers (they are interchangeable until first used).
Touched(s) ==
    \/ ~alive[s]
    \/ \E b \in Bindings : boundSpace[b] = s
    \/ \E n \in Nodes : nodeSpace[n] = s
    \/ \E c \in Cpus : loc[c].space = s

\* The operations started so far.
RECURSIVE SumStamps(_)
SumStamps(cs) ==
    IF cs = {} THEN 0
    ELSE LET c == CHOOSE x \in cs : TRUE IN (nextStamp[c] - 1) + SumStamps(cs \ {c})

OpsStarted ==
    SumStamps(Cpus)
    + Cardinality({ c \in Cpus : pc[c] \in {"rb_complete", "rb_bind"} })
    + Cardinality({ n \in Nodes : nodeSpace[n] # NullSpace })
    + Cardinality({ s \in Spaces : ~alive[s] })

InUse(s) == IF s = 1 THEN TRUE ELSE (Touched(s) \/ Touched(s - 1))

\* ------------------------------------------------------------------------
\* PageSpace::activate(space) on CPU c.
\* ------------------------------------------------------------------------

\* Variant: the loop does not look for a slot that is already bound.
RECURSIVE ActivateScanAlwaysRebinds(_, _, _, _)
ActivateScanAlwaysRebinds(c, space, i, k) ==
    IF i = maxPcidCount THEN [found |-> FALSE, slot |-> k]
    ELSE IF ~havePcids(c) THEN [found |-> FALSE, slot |-> k]
    ELSE ActivateScanAlwaysRebinds(c, space, i + 1,
             IF primaryStamp[<<c, i>>] < primaryStamp[<<c, k>>] THEN i ELSE k)

\* Variant: the loop prefers the most recently used slot.
RECURSIVE ActivateScanMru(_, _, _, _)
ActivateScanMru(c, space, i, k) ==
    IF i = maxPcidCount THEN [found |-> FALSE, slot |-> k]
    ELSE IF Grab(<<c, i>>) # NullSpace /\ Grab(<<c, i>>) = space
         THEN [found |-> TRUE, slot |-> i]
    ELSE IF ~havePcids(c) THEN [found |-> FALSE, slot |-> k]
    ELSE ActivateScanMru(c, space, i + 1,
             IF primaryStamp[<<c, i>>] > primaryStamp[<<c, k>>] THEN i ELSE k)

\* Variant: only slot 0 is tested for being bound to the space.
RECURSIVE ActivateScanTestsFirst(_, _, _, _)
ActivateScanTestsFirst(c, space, i, k) ==
    IF i = maxPcidCount THEN [found |-> FALSE, slot |-> k]
    ELSE IF i = 0 /\ Grab(<<c, i>>) # NullSpace /\ Grab(<<c, i>>) = space
         THEN [found |-> TRUE, slot |-> i]
    ELSE IF ~havePcids(c) THEN [found |-> FALSE, slot |-> k]
    ELSE ActivateScanTestsFirst(c, space, i + 1,
             IF primaryStamp[<<c, i>>] < primaryStamp[<<c, k>>] THEN i ELSE k)

\* Variant: the loop goes on without PCIDs.
RECURSIVE ActivateScanNoBreak(_, _, _, _)
ActivateScanNoBreak(c, space, i, k) ==
    IF i = maxPcidCount THEN [found |-> FALSE, slot |-> k]
    ELSE IF Grab(<<c, i>>) # NullSpace /\ Grab(<<c, i>>) = space
         THEN [found |-> TRUE, slot |-> i]
    ELSE ActivateScanNoBreak(c, space, i + 1,
             IF primaryStamp[<<c, i>>] < primaryStamp[<<c, k>>] THEN i ELSE k)

\* The loop of activate: the slot already bound to the space, or else the
\* slot to rebind (slot 0 without PCIDs, the least recently used otherwise).
RECURSIVE ActivateScan(_, _, _, _)
ActivateScan(c, space, i, k) ==
    IF i = maxPcidCount THEN [found |-> FALSE, slot |-> k]
    ELSE IF Grab(<<c, i>>) # NullSpace /\ Grab(<<c, i>>) = space
         THEN [found |-> TRUE, slot |-> i]
    ELSE IF ~havePcids(c) THEN [found |-> FALSE, slot |-> k]
    ELSE ActivateScan(c, space, i + 1,
             IF primaryStamp[<<c, i>>] < primaryStamp[<<c, k>>] THEN i ELSE k)

\* activate() finds the space bound: makePrimary on that slot, nothing else.
ActivateBound(c, s) ==
    /\ pc[c] = "idle"
    /\ alive[s] /\ InUse(s)
    /\ OpsStarted < MaxOps
    /\ ActivateScan(c, s, 0, 0).found
    /\ makePrimary(c, ActivateScan(c, s, 0, 0).slot, wasRebound, boundSpace, tlb, owed)
    /\ UNCHANGED << spaceVars, nodeVars, boundSpace, alreadyShotSequence, pc, loc,
                    waiting, snapshot >>
    /\ UNCHANGED << ptVars, lockVars >>

\* The first part of rebind(): grab the old space, invalidate the PCID,
\* set _wasRebound, and under the old space's lock hand off every pending
\* node and leave the space's binding count.
rebindUnbind(c, k, s) ==
    LET b       == <<c, k>>
        unbound == Grab(b)
        scan    == ScanQueue(shootQueue[unbound], alreadyShotSequence[b])
        list    == IF unbound # NullSpace THEN scan.complete ELSE << >>
    IN  /\ unbound # s
        /\ tlb' = IF havePcids(c) THEN [tlb EXCEPT ![b] = NullSpace] ELSE tlb
        /\ owed' = IF havePcids(c) THEN Discard(owed, {b}) ELSE owed
        /\ wasRebound' = [wasRebound EXCEPT ![b] = TRUE]
        /\ snapshot' = [snapshot EXCEPT ![b] = 0]
        /\ IF unbound # NullSpace
           THEN /\ bindingsToShoot' = scan.bts
                /\ shootQueue' = [shootQueue EXCEPT ![unbound] = scan.queue]
                /\ numBindings' = [numBindings EXCEPT ![unbound] = @ - 1]
                /\ waiting' = Visit(waiting, scan.visited, b)
           ELSE UNCHANGED << bindingsToShoot, shootQueue, numBindings, waiting >>
        /\ pc' = [pc EXCEPT ![c] = IF list = << >> THEN "rb_bind" ELSE "rb_complete"]
        /\ loc' = [loc EXCEPT ![c] = [k |-> k, space |-> s, held |-> unbound,
                                      complete |-> list, target_seq |-> 0]]

\* activate() finds no slot bound to the space: rebind the chosen slot.
ActivateRebind(c, s) ==
    /\ pc[c] = "idle"
    /\ alive[s] /\ InUse(s)
    /\ OpsStarted < MaxOps
    /\ ~ActivateScan(c, s, 0, 0).found
    /\ rebindUnbind(c, ActivateScan(c, s, 0, 0).slot, s)
    /\ UNCHANGED << alive, shootSequence, nodeSpace, nodeSeq, called, calledBy, ipi,
                    boundSpace, primaryStamp, alreadyShotSequence,
                    nextStamp, primaryBinding, cr3, ptVars, lockVars >>

\* rebind(): the callbacks of the nodes collected from the old space.
RebindComplete(c) ==
    /\ pc[c] = "rb_complete"
    /\ Invoke(loc[c].complete, "rebind")
    /\ pc' = [pc EXCEPT ![c] = "rb_bind"]
    /\ loc' = [loc EXCEPT ![c].complete = << >>]
    /\ UNCHANGED << spaceVars, nodeSpace, nodeSeq, bindingsToShoot, ipi,
                    bindingVars, nextStamp, primaryBinding, cr3, histVars, ptVars, lockVars >>

\* Variant: the new space's binding count is not incremented.
rebindBindUncounted(c, k, s) ==
    LET b == <<c, k>> IN
    /\ UNCHANGED numBindings
    /\ boundSpace' = [boundSpace EXCEPT ![b] = s]
    /\ alreadyShotSequence' = [alreadyShotSequence EXCEPT ![b] = shootSequence[s]]
    /\ snapshot' = [snapshot EXCEPT ![b] = shootSequence[s]]

\* Variant: the new binding starts its cursor at zero instead of at the
\* space's current _shootSequence.
rebindBindFromZero(c, k, s) ==
    LET b == <<c, k>> IN
    /\ boundSpace' = [boundSpace EXCEPT ![b] = s]
    /\ alreadyShotSequence' = [alreadyShotSequence EXCEPT ![b] = 0]
    /\ snapshot' = [snapshot EXCEPT ![b] = shootSequence[s]]
    /\ numBindings' = [numBindings EXCEPT ![s] = @ + 1]

\* The last part of rebind(): under the new space's lock snapshot
\* _shootSequence and join the binding count; then set _boundSpace and
\* _alreadyShotSequence.
rebindBind(c, k, s) ==
    LET b == <<c, k>> IN
    /\ numBindings' = [numBindings EXCEPT ![s] = @ + 1]
    /\ boundSpace' = [boundSpace EXCEPT ![b] = s]
    /\ alreadyShotSequence' = [alreadyShotSequence EXCEPT ![b] = shootSequence[s]]
    /\ snapshot' = [snapshot EXCEPT ![b] = shootSequence[s]]

\* rebind() finishes and activate() makes the slot primary.
ActivateFinish(c) ==
    /\ pc[c] = "rb_bind"
    /\ rebindBind(c, loc[c].k, loc[c].space)
    /\ makePrimary(c, loc[c].k, wasRebound, boundSpace', tlb, owed)
    /\ pc' = [pc EXCEPT ![c] = "idle"]
    /\ loc' = [loc EXCEPT ![c] = NoLocals]
    /\ UNCHANGED << alive, shootSequence, shootQueue, nodeVars, waiting, ptVars, lockVars >>

\* ------------------------------------------------------------------------
\* PageBinding::shootdown() on slot i of CPU c (the shootdown IPI handler).
\* ------------------------------------------------------------------------

\* Variant: the weak reference is kept.
shootdownDeadKeepsReference(c, i) ==
    LET b == <<c, i>> IN
    IF boundSpace[b] # NullSpace
    THEN /\ tlb' = [tlb EXCEPT ![b] = NullSpace]
         /\ owed' = Discard(owed, {b})
         /\ UNCHANGED << spaceVars, nodeVars, bindingVars, cpuVars, waiting, snapshot >>
    ELSE UNCHANGED vars

\* The space does not upgrade: invalidate the PCID and drop the weak
\* reference if there is one, and return.
shootdownDead(c, i) ==
    LET b == <<c, i>> IN
    IF boundSpace[b] # NullSpace
    THEN /\ tlb' = [tlb EXCEPT ![b] = NullSpace]
         /\ owed' = Discard(owed, {b})
         /\ boundSpace' = [boundSpace EXCEPT ![b] = NullSpace]
         /\ snapshot' = [snapshot EXCEPT ![b] = 0]
         /\ UNCHANGED << spaceVars, nodeVars, wasRebound, primaryStamp,
                         alreadyShotSequence, cpuVars, waiting >>
    ELSE UNCHANGED vars

ShootdownDead(c, i) ==
    /\ pc[c] = "idle"
    /\ Grab(<<c, i>>) = NullSpace
    /\ shootdownDead(c, i)
    /\ UNCHANGED << ptVars, lockVars >>

\* The lock section of shootdown(): return on an empty queue, else take the
\* tail's sequence as target and scan backwards, invalidating the pages of
\* every visited node before signalling it.
shootdownScan(c, i) ==
    LET b     == <<c, i>>
        space == Grab(b)
        q     == shootQueue[space]
        scan  == ScanQueue(q, alreadyShotSequence[b])
        shot  == { n \in scan.visited : NodePages(n) \subseteq ShotPages(n) }
        tseq  == nodeSeq[q[Len(q)]]
    IN  IF q = << >>
        THEN UNCHANGED vars
        ELSE /\ bindingsToShoot' = scan.bts
             /\ shootQueue' = [shootQueue EXCEPT ![space] = scan.queue]
             /\ waiting' = Visit(waiting, scan.visited, b)
             /\ owed' = Visit(owed, shot, b)
             /\ IF scan.complete = << >>
                THEN /\ alreadyShotSequence' = [alreadyShotSequence EXCEPT ![b] = tseq]
                     /\ UNCHANGED << pc, loc >>
                ELSE /\ pc' = [pc EXCEPT ![c] = "sd_complete"]
                     /\ loc' = [loc EXCEPT ![c] = [k |-> i, space |-> space, held |-> space,
                                                   complete |-> scan.complete,
                                                   target_seq |-> tseq]]
                     /\ UNCHANGED alreadyShotSequence
             /\ UNCHANGED << alive, numBindings, shootSequence, nodeSpace, nodeSeq,
                             called, calledBy, ipi, boundSpace, wasRebound, primaryStamp,
                             nextStamp, primaryBinding, cr3, tlb, snapshot >>

ShootdownScan(c, i) ==
    /\ pc[c] = "idle"
    /\ Grab(<<c, i>>) # NullSpace
    /\ shootdownScan(c, i)
    /\ UNCHANGED << ptVars, lockVars >>

\* shootdown(): the callbacks of the collected nodes, then
\* _alreadyShotSequence = target_seq.
ShootdownComplete(c) ==
    /\ pc[c] = "sd_complete"
    /\ Invoke(loc[c].complete, "shootdown")
    /\ alreadyShotSequence' = [alreadyShotSequence EXCEPT ![<<c, loc[c].k>>] = loc[c].target_seq]
    /\ pc' = [pc EXCEPT ![c] = "idle"]
    /\ loc' = [loc EXCEPT ![c] = NoLocals]
    /\ UNCHANGED << spaceVars, nodeSpace, nodeSeq, bindingsToShoot, ipi,
                    boundSpace, wasRebound, primaryStamp,
                    nextStamp, primaryBinding, cr3, histVars, ptVars, lockVars >>

\* ------------------------------------------------------------------------
\* PageSpace::submitShootdown(node) on space s.
\* ------------------------------------------------------------------------

\* Variant: the node is enqueued whether or not there are bindings.
AnyBindingsAlways(s) == numBindings[s] >= 0

\* any_bindings = _numBindings
AnyBindings(s) == numBindings[s] # 0

\* node->_sequence = _shootSequence++ : the value the node gets.
NodeSequence(s) == shootSequence[s]

\* Variant: the counter leaves one binding out.
NodeCounterOthers(s) == numBindings[s] - 1

\* node->_bindingsToShoot = _numBindings
NodeCounter(s) == numBindings[s]

\* Variant: push_front.
PushFront(q, n) == <<n>> \o q

\* _shootQueue.push_back(node)
PushBack(q, n) == Append(q, n)

\* The lock section: read _numBindings; if there are bindings, number the
\* node, set its counter and append it to the queue. After the lock: send
\* the IPI if there were bindings, else call back.
submitShootdown(n, s) ==
    /\ nodeSpace' = [nodeSpace EXCEPT ![n] = s]
    /\ IF AnyBindings(s)
       THEN /\ nodeSeq' = [nodeSeq EXCEPT ![n] = NodeSequence(s)]
            /\ shootSequence' = [shootSequence EXCEPT ![s] = @ + 1]
            /\ bindingsToShoot' = [bindingsToShoot EXCEPT ![n] = NodeCounter(s)]
            /\ shootQueue' = [shootQueue EXCEPT ![s] = PushBack(@, n)]
            /\ waiting' = [waiting EXCEPT ![n] = Counted(s)]
            /\ owed' = [owed EXCEPT ![n] = Counted(s)]
            /\ ipi' = [ipi EXCEPT ![n] = TRUE]
            /\ UNCHANGED << called, calledBy >>
       ELSE /\ Invoke(<<n>>, "submit")
            /\ UNCHANGED << nodeSeq, shootSequence, bindingsToShoot, shootQueue,
                            waiting, owed, ipi >>

\* Nodes are handed out in the order of their numbers.
SubmitShootdown(n, s) ==
    /\ nodeSpace[n] = NullSpace
    /\ \A m \in Nodes : m < n => nodeSpace[m] # NullSpace
    /\ alive[s] /\ InUse(s)
    /\ OpsStarted < MaxOps
    /\ submitShootdown(n, s)
    /\ UNCHANGED << alive, numBindings, bindingVars, cpuVars, tlb, snapshot, ptVars, lockVars >>

\* ------------------------------------------------------------------------
\* The last strong reference to a space is dropped. No function that holds
\* a SharedPtr to the space (an argument or a grabbed reference) is running.
\* ------------------------------------------------------------------------

DropSpace(s) ==
    /\ alive[s] /\ InUse(s)
    /\ OpsStarted < MaxOps
    /\ \A c \in Cpus : pc[c] # "idle" => loc[c].space # s /\ loc[c].held # s
    /\ alive' = [alive EXCEPT ![s] = FALSE]
    /\ UNCHANGED << numBindings, shootSequence, shootQueue, nodeVars,
                    bindingVars, cpuVars, histVars, ptVars, lockVars >>

\* ------------------------------------------------------------------------
\* Page tables: entries.
\* ------------------------------------------------------------------------

kPagePresent == 1

kPageWrite == 2

kPageUser == 4

kPagePwt == 8

kPagePcd == 16

kPagePat == 128

kPageGlobal == 256

\* A 64-bit entry. kPageXd is bit 63, beyond TLC's integers: the entry keeps
\* it in a field of its own, next to the bits below it.
Entry(low) == [low |-> low, xd |-> FALSE]

\* entry & bit
Test(e, bit) == (e.low \div bit) % 2 = 1

\* entry | bit
Or(e, bit) == IF Test(e, bit) THEN e ELSE [e EXCEPT !.low = @ + bit]

\* entry | kPageXd
OrXd(e) == [e EXCEPT !.xd = TRUE]

\* entry ^ bit
Xor(e, bit) ==
    IF Test(e, bit) THEN [e EXCEPT !.low = @ - bit] ELSE [e EXCEPT !.low = @ + bit]

\* entry & ~bit
AndNot(e, bit) == IF Test(e, bit) THEN [e EXCEPT !.low = @ - bit] ELSE e

\* entry & 0x000FFFFFFFFFF000
AddressOf(e) == e.low - (e.low % kPageSize)

\* page_access::write and page_access::execute, bits of the flags argument.
page_access_write == 1

page_access_execute == 2

\* flags & bit
HasFlag(flags, bit) == (flags \div bit) % 2 = 1

\* ------------------------------------------------------------------------
\* Page tables: virtual addresses. A VirtualAddr is kept in three parts,
\* bits 39..47 (hi), bits 12..38 (page) and bits 0..11 (off), since the
\* whole does not fit TLC's integers.
\* ------------------------------------------------------------------------

Pointer(index4, index3, index2, index1, off) ==
    [hi |-> index4, page |-> (index3 * 512 + index2) * 512 + index1, off |-> off]

\* (pointer >> 39) & 0x1FF
Index4(pointer) == pointer.hi

\* (pointer >> 30) & 0x1FF
Index3(pointer) == (pointer.page \div 262144) % 512

\* (pointer >> 21) & 0x1FF
Index2(pointer) == (pointer.page \div 512) % 512

\* (pointer >> 12) & 0x1FF
Index1(pointer) == pointer.page % 512

\* pointer + progress, progress in bytes.
Advance(pointer, progress) ==
    LET bytes == pointer.off + progress
        pages == pointer.page + (bytes \div kPageSize)
    IN  [hi |-> (pointer.hi + (pages \div 134217728)) % 512,
         page |-> pages % 134217728,
         off |-> bytes % kPageSize]

\* (pointer % 0x1000) == 0
PageAligned(pointer) == pointer.off = 0

\* ------------------------------------------------------------------------
\* Page tables: physical memory.
\* ------------------------------------------------------------------------

\* KernelPageSpace::global().rootTable(): the PML4 that boot hands over.
KernelRoot == kPageSize

\* The PDPT that entry index4 of the kernel's upper half points to.
BootTable(index4) == (index4 - 254) * kPageSize

\* rootTable() of the client space: the frame its constructor allocated.
ClientRoot == 258 * kPageSize

\* The frame that SkeletalRegion::allocate() / physicalAllocator->allocate()
\* hands out after al earlier allocations.
Allocate(al) == (259 + al) * kPageSize

\* The page tables once the kernel space and the client space exist. Every
\* upper-half entry of the kernel's PML4 is present (the client constructor
\* asserts it); the client's PML4 has a zeroed lower half and the kernel's
\* entries in the upper half.
InitialMemory(tbl, idx) ==
    IF tbl \in {KernelRoot, ClientRoot} /\ idx >= 256
    THEN Or(Or(Entry(BootTable(idx)), kPagePresent), kPageWrite)
    ELSE Entry(0)

\* tbl[idx] and tbl[idx] = e, on a memory m.
Load(m, tbl, idx) ==
    IF <<tbl, idx>> \in DOMAIN m THEN m[<<tbl, idx>>] ELSE InitialMemory(tbl, idx)

Store(m, tbl, idx, e) ==
    IF e = InitialMemory(tbl, idx)
    THEN [ x \in DOMAIN m \ {<<tbl, idx>>} |-> m[x] ]
    ELSE (<<tbl, idx>> :> e) @@ m

\* for(i < 512) tbl[i] = 0 / memset(tbl, 0, kPageSize), on a frame that is
\* no root table.
ZeroFill(m, tbl) == [ x \in { y \in DOMAIN m : y[1] # tbl } |-> m[x] ]

rootTable(space) == IF space = "kernel" THEN KernelRoot ELSE ClientRoot

\* The tree that holds the tables of a pointer: the upper half of every
\* space is the kernel's.
Tree(space, pointer) == IF Index4(pointer) >= 256 THEN "kernel" ELSE space

LeafKey(space, pointer) == << Tree(space, pointer), pointer.hi, pointer.page >>

\* The walk state at the start of a function: the root table and the
\* alignment assertions.
Enter(m, al, space, misaligned) ==
    [ memory |-> m, allocated |-> al,
      table |-> rootTable(space), failed |-> misaligned, skip |-> FALSE ]

\* ------------------------------------------------------------------------
\* The leaf attributes shared by both mapSingle4k functions.
\* ------------------------------------------------------------------------

CachingModes == {"null", "uncached", "writeCombine", "writeThrough", "writeBack"}

\* Variant: the flags are ignored, every page is writable and executable.
accessBitsPermissive(new_entry, flags) == Or(new_entry, kPageWrite)

\* if(flags & write) |= kPageWrite; if(!(flags & execute)) |= kPageXd
accessBits(new_entry, flags) ==
    LET w == IF HasFlag(flags, page_access_write) THEN Or(new_entry, kPageWrite)
             ELSE new_entry
    IN  IF ~HasFlag(flags, page_access_execute) THEN OrXd(w) ELSE w

\* The caching modes the if/else chain accepts: the last branch asserts
\* null or writeBack.
cachingAccepted(caching_mode) ==
    caching_mode \in {"writeThrough", "writeCombine", "null", "writeBack"}

cachingBits(new_entry, caching_mode) ==
    IF caching_mode = "writeThrough" THEN Or(new_entry, kPagePwt)
    ELSE IF caching_mode = "writeCombine" THEN Or(Or(new_entry, kPagePat), kPagePwt)
    ELSE new_entry

\* Variant: a leaf that is Present is overwritten.
mapLeafOverwrites(st, idx, new_entry, flags, caching_mode, presentLine, cachingLine) ==
    IF st.failed # 0 THEN st
    ELSE IF ~cachingAccepted(caching_mode)
         THEN [st EXCEPT !.failed = cachingLine]
    ELSE [st EXCEPT !.memory =
             Store(@, st.table, idx, cachingBits(accessBits(new_entry, flags), caching_mode))]

\* The end of mapSingle4k: assert the leaf absent, build and store the entry.
mapLeaf(st, idx, new_entry, flags, caching_mode, presentLine, cachingLine) ==
    IF st.failed # 0 THEN st
    ELSE IF Test(Load(st.memory, st.table, idx), kPagePresent)
         THEN [st EXCEPT !.failed = presentLine]
    ELSE IF ~cachingAccepted(caching_mode)
         THEN [st EXCEPT !.failed = cachingLine]
    ELSE [st EXCEPT !.memory =
             Store(@, st.table, idx, cachingBits(accessBits(new_entry, flags), caching_mode))]

\* ------------------------------------------------------------------------
\* The arguments the page-table functions are called with.
\* ------------------------------------------------------------------------

\* The first page of the range: the last but one of a page table.
RangeBase == Pointer(0, 0, 0, 510, 0)

\* A page under another PDPT entry, and a page of the upper half.
FarPage == Pointer(0, 1, 0, 0, 0)

HighPage == Pointer(256, 0, 0, 0, 0)

VirtPages ==
    { Advance(RangeBase, j * kPageSize) : j \in 0 .. (RangePages - 1) }
        \cup {FarPage, HighPage}

\* The pages and an address that is not page-aligned.
Pointers == VirtPages \cup { Advance(RangeBase, 8) }

\* Two frames and an address that is not page-aligned.
Physicals == { 1000 * kPageSize, 1001 * kPageSize, 1000 * kPageSize + 8 }

AccessFlags == 0 .. (page_access_write + page_access_execute)

\* The arguments <<physical, flags, caching_mode>> that the steps of the
\* model call a map with; the properties range over every combination of
\* Physicals, AccessFlags and CachingModes in every state these reach.
StepArguments ==
    { << 1000 * kPageSize, page_access_write, "writeThrough" >>,
      << 1001 * kPageSize, page_access_write, "uncached" >>,
      << 1000 * kPageSize + 8, page_access_execute, "writeBack" >> }

\* The arguments of a map, as the history keeps them.
Request(by, physical, user_page, flags, caching_mode) ==
    [ by |-> by, physical |-> physical, user_page |-> user_page,
      flags |-> flags, caching_mode |-> caching_mode ]

Record(mp, key, req) ==
    [ x \in DOMAIN mp \cup {key} |-> IF x = key THEN req ELSE mp[x] ]

Forget(mp, keys) == [ x \in DOMAIN mp \ keys |-> mp[x] ]

\* ------------------------------------------------------------------------
\* KernelPageSpace::mapSingle4k and unmapSingle4k.
\* ------------------------------------------------------------------------

\* "make sure there is a pdpt / pd / pt": follow the entry or allocate a
\* zeroed table and enter it with Present|Write; assert the entry has no
\* User bit.
kernelTable(st, idx, line) ==
    IF st.failed # 0 THEN st
    ELSE LET initial_entry == Load(st.memory, st.table, idx)
             present   == Test(initial_entry, kPagePresent)
             page      == Allocate(st.allocated)
             new_entry == Or(Or(Entry(page), kPagePresent), kPageWrite)
             m         == IF present THEN st.memory
                          ELSE Store(ZeroFill(st.memory, page), st.table, idx, new_entry)
         IN  [ memory    |-> m,
               allocated |-> IF present THEN st.allocated ELSE st.allocated + 1,
               table     |-> IF present THEN AddressOf(initial_entry) ELSE page,
               failed    |-> IF Test(Load(m, st.table, idx), kPageUser) THEN line ELSE 0,
               skip      |-> FALSE ]

\* Variant: the leaf is not marked global.
kernelLeafNotGlobal(physical) == Or(Entry(physical), kPagePresent)

\* new_entry = physical | kPagePresent | kPageGlobal
kernelLeaf(physical) == Or(Or(Entry(physical), kPagePresent), kPageGlobal)

kernelMapSingle4k(m, al, pointer, physical, flags, caching_mode) ==
    LET s0 == Enter(m, al, "kernel", IF ~PageAligned(pointer) THEN 300
                                     ELSE IF physical % kPageSize # 0 THEN 301 ELSE 0)
        s4 == kernelTable(s0, Index4(pointer), 331)
        s3 == kernelTable(s4, Index3(pointer), 348)
        s2 == kernelTable(s3, Index2(pointer), 365)
    IN  mapLeaf(s2, Index1(pointer), kernelLeaf(physical), flags, caching_mode, 368, 379)

KernelMapSingle4k(pointer, physical, flags, caching_mode) ==
    LET r == kernelMapSingle4k(memory, allocated, pointer, physical, flags, caching_mode) IN
    /\ failed = 0
    /\ ptOps < MaxPtOps
    /\ memory' = r.memory
    /\ allocated' = r.allocated
    /\ failed' = r.failed
    /\ returned' = IF r.failed = 0 THEN [fn |-> "mapSingle4k", value |-> 0] ELSE returned
    /\ mapped' = IF r.failed = 0
                 THEN Record(mapped, LeafKey("kernel", pointer),
                             Request("kernel", physical, FALSE, flags, caching_mode))
                 ELSE mapped
    /\ ptOps' = ptOps + 1
    /\ UNCHANGED << protocolVars, lockVars >>

\* Variant: the entry is followed without the assertion.
presentTableUnchecked(st, idx, line) ==
    IF st.failed # 0 THEN st
    ELSE [st EXCEPT !.table = AddressOf(Load(st.memory, st.table, idx))]

\* "find the pdpt / pd / pt entry": assert the entry present and follow it.
presentTable(st, idx, line) ==
    IF st.failed # 0 THEN st
    ELSE LET entry == Load(st.memory, st.table, idx) IN
         IF Test(entry, kPagePresent)
         THEN [st EXCEPT !.table = AddressOf(entry)]
         ELSE [st EXCEPT !.failed = line]

\* Variant: the leaf is left as it is.
kernelUnmapLeafKept(st, idx) == st

\* Variant: the leaf is overwritten with zero.
kernelUnmapLeafZeroes(st, idx) ==
    IF st.failed # 0 THEN st
    ELSE IF ~Test(Load(st.memory, st.table, idx), kPagePresent)
         THEN [st EXCEPT !.failed = 416]
    ELSE [st EXCEPT !.memory = Store(@, st.table, idx, Entry(0))]

\* assert the leaf present; pt_pointer[pt_index] ^= kPagePresent
kernelUnmapLeaf(st, idx) ==
    IF st.failed # 0 THEN st
    ELSE IF ~Test(Load(st.memory, st.table, idx), kPagePresent)
         THEN [st EXCEPT !.failed = 416]
    ELSE [st EXCEPT !.memory =
             Store(@, st.table, idx, Xor(Load(st.memory, st.table, idx), kPagePresent))]

kernelUnmapSingle4k(m, al, pointer) ==
    LET s0 == Enter(m, al, "kernel", IF ~PageAligned(pointer) THEN 385 ELSE 0)
        s4 == presentTable(s0, Index4(pointer), 402)
        s3 == presentTable(s4, Index3(pointer), 407)
        s2 == presentTable(s3, Index2(pointer), 412)
    IN  kernelUnmapLeaf(s2, Index1(pointer))

KernelUnmapSingle4k(pointer) ==
    LET r == kernelUnmapSingle4k(memory, allocated, pointer) IN
    /\ failed = 0
    /\ ptOps < MaxPtOps
    /\ memory' = r.memory
    /\ allocated' = r.allocated
    /\ failed' = r.failed
    /\ returned' = IF r.failed = 0
                   THEN [fn |-> "unmapSingle4k",
                         value |-> AddressOf(Load(r.memory, r.table, Index1(pointer)))]
                   ELSE returned
    /\ mapped' = IF r.failed = 0 THEN Forget(mapped, {LeafKey("kernel", pointer)})
                 ELSE mapped
    /\ ptOps' = ptOps + 1
    /\ UNCHANGED << protocolVars, lockVars >>

\* ------------------------------------------------------------------------
\* ClientPageSpace::mapSingle4k.
\* ------------------------------------------------------------------------

\* new_entry = tbl_address | kPagePresent | kPageWrite, | kPageUser for a
\* user page.
clientTableEntry(tbl_address, user_page) ==
    LET new_entry == Or(Or(Entry(tbl_address), kPagePresent), kPageWrite)
    IN  IF user_page THEN Or(new_entry, kPageUser) ELSE new_entry

\* Variant: the User bit of the entry is not asserted.
clientTableUnchecked(st, idx, user_page, line) ==
    IF st.failed # 0 THEN st
    ELSE LET entry       == Load(st.memory, st.table, idx)
             present     == Test(entry, kPagePresent)
             tbl_address == Allocate(st.allocated)
         IN  [ memory    |-> IF present THEN st.memory
                             ELSE Store(ZeroFill(st.memory, tbl_address), st.table, idx,
                                        clientTableEntry(tbl_address, user_page)),
               allocated |-> IF present THEN st.allocated ELSE st.allocated + 1,
               table     |-> IF present THEN AddressOf(entry) ELSE tbl_address,
               failed    |-> 0,
               skip      |-> FALSE ]

\* "Make sure there is a PDPT / PD / PT": follow the entry or allocate a
\* zeroed table and enter it; assert the entry's User bit is user_page.
clientTable(st, idx, user_page, line) ==
    IF st.failed # 0 THEN st
    ELSE LET entry       == Load(st.memory, st.table, idx)
             present     == Test(entry, kPagePresent)
             tbl_address == Allocate(st.allocated)
             m           == IF present THEN st.memory
                            ELSE Store(ZeroFill(st.memory, tbl_address), st.table, idx,
                                       clientTableEntry(tbl_address, user_page))
         IN  [ memory    |-> m,
               allocated |-> IF present THEN st.allocated ELSE st.allocated + 1,
               table     |-> IF present THEN AddressOf(entry) ELSE tbl_address,
               failed    |-> IF Test(Load(m, st.table, idx), kPageUser) = user_page
                             THEN 0 ELSE line,
               skip      |-> FALSE ]

\* new_entry = physical | kPagePresent, | kPageUser for a user page.
clientLeaf(physical, user_page) ==
    IF user_page THEN Or(Or(Entry(physical), kPagePresent), kPageUser)
    ELSE Or(Entry(physical), kPagePresent)

clientMapSingle4k(m, al, pointer, physical, user_page, flags, caching_mode) ==
    LET s0 == Enter(m, al, "client", IF ~PageAligned(pointer) THEN 452
                                     ELSE IF physical % kPageSize # 0 THEN 453 ELSE 0)
        s4 == clientTable(s0, Index4(pointer), user_page, 490)
        s3 == clientTable(s4, Index3(pointer), user_page, 507)
        s2 == clientTable(s3, Index2(pointer), user_page, 524)
    IN  mapLeaf(s2, Index1(pointer), clientLeaf(physical, user_page),
                flags, caching_mode, 529, 542)

ClientMapSingle4k(pointer, physical, user_page, flags, caching_mode) ==
    LET r == clientMapSingle4k(memory, allocated, pointer, physical, user_page,
                               flags, caching_mode) IN
    /\ failed = 0
    /\ ptOps < MaxPtOps
    /\ memory' = r.memory
    /\ allocated' = r.allocated
    /\ failed' = r.failed
    /\ returned' = IF r.failed = 0 THEN [fn |-> "mapSingle4k", value |-> 0] ELSE returned
    /\ mapped' = IF r.failed = 0
                 THEN Record(mapped, LeafKey("client", pointer),
                             Request("client", physical, user_page, flags, caching_mode))
                 ELSE mapped
    /\ ptOps' = ptOps + 1
    /\ UNCHANGED << protocolVars, lockVars >>

\* ------------------------------------------------------------------------
\* ClientPageSpace::unmapRange.
\* ------------------------------------------------------------------------

PageModes == {"normal", "remap"}

\* The byte counts a range is given: up to RangePages pages, and one that
\* is not a multiple of the page size.
Sizes == { j * kPageSize : j \in 1 .. RangePages } \cup {8}

\* Variant: remap mode asserts like normal mode.
skipsAbsentNever(mode, entry) == FALSE

\* mode == PageMode::remap && !(entry & kPagePresent)
skipsAbsent(mode, entry) == mode = "remap" /\ ~Test(entry, kPagePresent)

\* "Find the PDPT / PD / PT": continue with the next page in remap mode if
\* the entry is absent, else assert it present and follow it.
rangeTable(st, idx, mode, line) ==
    IF st.failed # 0 \/ st.skip THEN st
    ELSE LET entry == Load(st.memory, st.table, idx) IN
         IF skipsAbsent(mode, entry) THEN [st EXCEPT !.skip = TRUE]
         ELSE IF ~Test(entry, kPagePresent) THEN [st EXCEPT !.failed = line]
         ELSE [st EXCEPT !.table = AddressOf(entry)]

\* The leaf: skip or assert as above, then store the entry & ~kPagePresent.
rangeLeaf(st, idx, mode) ==
    IF st.failed # 0 \/ st.skip THEN st
    ELSE LET entry == Load(st.memory, st.table, idx) IN
         IF skipsAbsent(mode, entry) THEN [st EXCEPT !.skip = TRUE]
         ELSE IF ~Test(entry, kPagePresent) THEN [st EXCEPT !.failed = 597]
         ELSE [st EXCEPT !.memory = Store(@, st.table, idx, AndNot(entry, kPagePresent))]

\* One iteration of the loop, for the page at pointer + progress.
unmapPage(st, pointer, mode) ==
    LET s0 == [st EXCEPT !.table = rootTable("client"), !.skip = FALSE]
        s4 == rangeTable(s0, Index4(pointer), mode, 577)
        s3 == rangeTable(s4, Index3(pointer), mode, 584)
        s2 == rangeTable(s3, Index2(pointer), mode, 591)
    IN  rangeLeaf(s2, Index1(pointer), mode)

\* for(progress = 0; progress < size; progress += kPageSize)
RECURSIVE unmapLoop(_, _, _, _, _)
unmapLoop(st, pointer, size, mode, progress) ==
    IF st.failed # 0 \/ progress >= size THEN st
    ELSE unmapLoop(unmapPage(st, Advance(pointer, progress), mode),
                   pointer, size, mode, progress + kPageSize)

unmapRange(m, al, pointer, size, mode) ==
    unmapLoop(Enter(m, al, "client", IF ~PageAligned(pointer) THEN 548
                                     ELSE IF size % kPageSize # 0 THEN 549 ELSE 0),
              pointer, size, mode, 0)

\* The pages of [pointer, pointer + size).
RangeOf(pointer, size) ==
    { Advance(pointer, j * kPageSize) : j \in { i \in 0 .. RangePages : i * kPageSize < size } }

UnmapRange(pointer, size, mode) ==
    LET r == unmapRange(memory, allocated, pointer, size, mode) IN
    /\ failed = 0
    /\ ptOps < MaxPtOps
    /\ memory' = r.memory
    /\ allocated' = r.allocated
    /\ failed' = r.failed
    /\ returned' = IF r.failed = 0 THEN [fn |-> "unmapRange", value |-> 0] ELSE returned
    /\ mapped' = IF r.failed \in {548, 549} THEN mapped
                 ELSE Forget(mapped, { LeafKey("client", q) : q \in RangeOf(pointer, size) })
    /\ ptOps' = ptOps + 1
    /\ UNCHANGED << protocolVars, lockVars >>

\* ------------------------------------------------------------------------
\* ClientPageSpace::isMapped.
\* ------------------------------------------------------------------------

\* "Find the PDPT / PD / PT": return false if the entry is absent.
mappedTable(st, idx) ==
    IF st.failed # 0 \/ st.skip THEN st
    ELSE LET entry == Load(st.memory, st.table, idx) IN
         IF ~Test(entry, kPagePresent) THEN [st EXCEPT !.skip = TRUE]
         ELSE [st EXCEPT !.table = AddressOf(entry)]

\* Variant: a leaf counts as mapped when it is not zero.
mappedLeafNonZero(entry) == entry # Entry(0)

\* return tbl1[index1].load() & kPagePresent
mappedLeaf(entry) == Test(entry, kPagePresent)

\* The walk of isMapped and its return value; skip stands for an early
\* return of false.
isMapped(m, al, pointer) ==
    LET s0 == Enter(m, al, "client", IF ~PageAligned(pointer) THEN 603 ELSE 0)
        s4 == mappedTable(s0, Index4(pointer))
        s3 == mappedTable(s4, Index3(pointer))
        s2 == mappedTable(s3, Index2(pointer))
    IN  [ st    |-> s2,
          value |-> IF s2.skip THEN FALSE
                    ELSE mappedLeaf(Load(s2.memory, s2.table, Index1(pointer))) ]

IsMapped(pointer) ==
    LET r == isMapped(memory, allocated, pointer) IN
    /\ failed = 0
    /\ ptOps < MaxPtOps
    /\ memory' = r.st.memory
    /\ allocated' = r.st.allocated
    /\ failed' = r.st.failed
    /\ returned' = IF r.st.failed = 0
                   THEN [fn |-> "isMapped", value |-> r.value]
                   ELSE returned
    /\ ptOps' = ptOps + 1
    /\ UNCHANGED << mapped, protocolVars, lockVars >>

\* ------------------------------------------------------------------------

Next ==
    \/ \E c \in Cpus, s \in Spaces : ActivateBound(c, s)
    \/ \E c \in Cpus, s \in Spaces : ActivateRebind(c, s)
    \/ \E c \in Cpus : RebindComplete(c)
    \/ \E c \in Cpus : ActivateFinish(c)
    \/ \E c \in Cpus, i \in Slots : ShootdownDead(c, i)
    \/ \E c \in Cpus, i \in Slots : ShootdownScan(c, i)
    \/ \E c \in Cpus : ShootdownComplete(c)
    \/ \E n \in Nodes, s \in Spaces : SubmitShootdown(n, s)
    \/ \E s \in Spaces : DropSpace(s)

Spec == Init /\ [][Next]_vars

\* The page-table functions, called one at a time (each holds the space's
\* lock from its first to its last access).
PtNext ==
    \/ \E pointer \in Pointers, a \in StepArguments :
            KernelMapSingle4k(pointer, a[1], a[2], a[3])
    \/ \E pointer \in Pointers : KernelUnmapSingle4k(pointer)
    \/ \E pointer \in Pointers, a \in StepArguments, user_page \in BOOLEAN :
            ClientMapSingle4k(pointer, a[1], user_page, a[2], a[3])
    \/ \E pointer \in Pointers, size \in Sizes, mode \in PageModes :
            UnmapRange(pointer, size, mode)
    \/ \E pointer \in Pointers : IsMapped(pointer)

PtSpec == Init /\ [][PtNext]_vars

\* ------------------------------------------------------------------------
\* The locking of PageSpace::_mutex, one step per acquisition and release.
\* A function is the sequence of its lock, unlock and callback points; what
\* it reads under the lock (whether there is an old space, whether the
\* queue is empty, whether there are bindings) is an input of the call.
\* rebind, shootdown and the lock section of submitShootdown run with
\* interrupts disabled, so a CPU is in one of them at a time, except that a
\* completion callback may itself call submitShootdown.
\* ------------------------------------------------------------------------

\* auto lock = frigg::guard(&x->_mutex), with x the old or the new space.
Lock(on) == [op |-> "lock", on |-> on]

\* The end of the scope of the guard.
Unlock(on) == [op |-> "unlock", on |-> on]

\* while(!complete.empty()) complete.pop_front()->shotDown(), or
\* node->shotDown(node).
Callbacks == [op |-> "callbacks", on |-> "none"]

\* Variant: the old space's lock is held to the end of rebind.
rebindProgramNestedLocks(unbound) ==
    IF unbound # NullSpace
    THEN << Lock("unbound"), Callbacks, Lock("space"), Unlock("space"), Unlock("unbound") >>
    ELSE << Callbacks, Lock("space"), Unlock("space") >>

\* rebind: if(unbound) { lock; scan; _numBindings-- }, the callbacks,
\* { lock; target_seq = _shootSequence; _numBindings++ }.
rebindProgram(unbound) ==
    IF unbound # NullSpace
    THEN << Lock("unbound"), Unlock("unbound"), Callbacks, Lock("space"), Unlock("space") >>
    ELSE << Callbacks, Lock("space"), Unlock("space") >>

\* Variant: the callbacks are invoked inside the lock section.
shootdownProgramCallsInside(empty) ==
    IF empty THEN << Lock("space"), Unlock("space") >>
    ELSE << Lock("space"), Callbacks, Unlock("space") >>

\* shootdown: { lock; return if the queue is empty; scan }, the callbacks.
shootdownProgram(empty) ==
    IF empty THEN << Lock("space"), Unlock("space") >>
    ELSE << Lock("space"), Unlock("space"), Callbacks >>

\* submitShootdown: { lock; enqueue if there are bindings }, then the IPI
\* if there were bindings, else the callback.
submitProgram(any_bindings) ==
    IF any_bindings THEN << Lock("space"), Unlock("space") >>
    ELSE << Lock("space"), Unlock("space"), Callbacks >>

\* A call in progress: its function and program, the index of the next
\* point, and the spaces it locks.
Frame(fn, program, unbound, space) ==
    [fn |-> fn, program |-> program, ip |-> 1, unbound |-> unbound, space |-> space]

Top(c) == stack[c][Len(stack[c])]

\* The next point of the innermost call of CPU c, if the CPU is in a call.
At(c, op) == stack[c] # << >> /\ Top(c).program[Top(c).ip].op = op

\* The space whose lock the next point of the innermost call is about.
Target(c) ==
    IF Top(c).program[Top(c).ip].on = "unbound" THEN Top(c).unbound ELSE Top(c).space

\* The stack of CPU c after its innermost call passed a point: the call
\* returns after its last point.
Proceed(c) ==
    LET n == Len(stack[c]) IN
    IF Top(c).ip = Len(Top(c).program) THEN SubSeq(stack[c], 1, n - 1)
    ELSE [stack[c] EXCEPT ![n].ip = @ + 1]

\* activate calls rebind(space) on a slot bound to unbound, or to nothing.
CallRebind(c, unbound, space) ==
    /\ stack[c] = << >>
    /\ unbound # space
    /\ stack' = [stack EXCEPT ![c] =
                    << Frame("rebind", rebindProgram(unbound), unbound, space) >>]
    /\ UNCHANGED << mutex, protocolVars, ptVars >>

\* The shootdown IPI arrives: shootdown() on a slot bound to space.
CallShootdown(c, space, empty) ==
    /\ stack[c] = << >>
    /\ stack' = [stack EXCEPT ![c] =
                    << Frame("shootdown", shootdownProgram(empty), NullSpace, space) >>]
    /\ UNCHANGED << mutex, protocolVars, ptVars >>

\* submitShootdown on space s, called outside of any callback.
CallSubmitShootdown(c, s, any_bindings) ==
    /\ stack[c] = << >>
    /\ stack' = [stack EXCEPT ![c] =
                    << Frame("submitShootdown", submitProgram(any_bindings), NullSpace, s) >>]
    /\ UNCHANGED << mutex, protocolVars, ptVars >>

\* A completion callback calls submitShootdown on space s. (The callback of
\* that call calls it no further.)
CallbackSubmits(c, s, any_bindings) ==
    /\ At(c, "callbacks")
    /\ Len(stack[c]) = 1
    /\ stack' = [stack EXCEPT ![c] =
                    Append(@, Frame("submitShootdown", submitProgram(any_bindings),
                                    NullSpace, s))]
    /\ UNCHANGED << mutex, protocolVars, ptVars >>

\* TicketLock::lock: the CPU spins until the lock is free.
AcquireMutex(c) ==
    /\ At(c, "lock")
    /\ mutex[Target(c)] = 0
    /\ mutex' = [mutex EXCEPT ![Target(c)] = c]
    /\ stack' = [stack EXCEPT ![c] = Proceed(c)]
    /\ UNCHANGED << protocolVars, ptVars >>

\* TicketLock::unlock.
ReleaseMutex(c) ==
    /\ At(c, "unlock")
    /\ mutex' = [mutex EXCEPT ![Target(c)] = 0]
    /\ stack' = [stack EXCEPT ![c] = Proceed(c)]
    /\ UNCHANGED << protocolVars, ptVars >>

\* The callbacks have returned.
CallbacksDone(c) ==
    /\ At(c, "callbacks")
    /\ stack' = [stack EXCEPT ![c] = Proceed(c)]
    /\ UNCHANGED << mutex, protocolVars, ptVars >>

LockNext ==
    \/ \E c \in Cpus, unbound \in Spaces \cup {NullSpace}, space \in Spaces :
            CallRebind(c, unbound, space)
    \/ \E c \in Cpus, space \in Spaces, empty \in BOOLEAN : CallShootdown(c, space, empty)
    \/ \E c \in Cpus, s \in Spaces, any_bindings \in BOOLEAN :
            CallSubmitShootdown(c, s, any_bindings)
    \/ \E c \in Cpus, s \in Spaces, any_bindings \in BOOLEAN :
            CallbackSubmits(c, s, any_bindings)
    \/ \E c \in Cpus : AcquireMutex(c)
    \/ \E c \in Cpus : ReleaseMutex(c)
    \/ \E c \in Cpus : CallbacksDone(c)

LockSpec == Init /\ [][LockNext]_vars

\* ------------------------------------------------------------------------
\* Vocabulary of the properties.
\* ------------------------------------------------------------------------

\* The nodes linked in the queue of space s.
Queued(s) == { shootQueue[s][j] : j \in 1 .. Len(shootQueue[s]) }

\* The nodes a CPU has unlinked and not yet called back.
Collected(c) == { loc[c].complete[j] : j \in 1 .. Len(loc[c].complete) }

\* No CPU is inside activate (rebind) or shootdown.
AllIdle == \A c \in Cpus : pc[c] = "idle"

\* No CPU is between the two lock sections of rebind.
NoRebind == Rebinding = {}

\* A shootdown() call on some binding that changes something.
ShootdownStep ==
    \E c \in Cpus, i \in Slots : ShootdownScan(c, i) \/ ShootdownDead(c, i)

\* n is submitted to s in this step.
Submits(n, s) == nodeSpace[n] = NullSpace /\ nodeSpace'[n] = s

\* CPU c starts to rebind slot k in this step.
StartsRebind(c, k) ==
    /\ pc[c] = "idle"
    /\ pc'[c] \in {"rb_complete", "rb_bind"}
    /\ loc'[c].k = k

\* CPU c finishes the rebind of a slot in this step.
FinishesRebind(c) == pc[c] = "rb_bind" /\ pc'[c] = "idle"

\* CPU c calls activate(s) in this step.
Activates(c, s) == ActivateBound(c, s) \/ ActivateRebind(c, s)

\* ------------------------------------------------------------------------
\* C1. Every node that submitShootdown enqueues is eventually called back
\* and removed from the queue, given that every CPU keeps running
\* shootdown() on its bindings. Stated on the states in which no call is in
\* progress and no shootdown() on any binding would change anything any
\* more: there, no node is left in the queue of a live space.
\* ------------------------------------------------------------------------
C1_EnqueuedNodeCompletes ==
    (AllIdle /\ ~ENABLED <<ShootdownStep>>_vars)
        => \A s \in Spaces : alive[s] => shootQueue[s] = << >>

\* ------------------------------------------------------------------------
\* C2. The callback of a submission is invoked at most once: only one CPU
\* collects the node, it does so when the counter goes from 1 to 0, and the
\* node is out of the queue before the callback runs.
\* ------------------------------------------------------------------------
C2_CallbackAtMostOnce ==
    \A n \in Nodes :
        /\ called[n] <= 1
        /\ \A c \in Cpus : n \in Collected(c) =>
              /\ called[n] = 0
              /\ bindingsToShoot[n] = 0
              /\ \A s \in Spaces : n \notin Queued(s)
              /\ \A d \in Cpus \ {c} : n \notin Collected(d)
        /\ (called[n] = 1 /\ calledBy[n] # "submit") =>
              /\ bindingsToShoot[n] = 0
              /\ \A s \in Spaces : n \notin Queued(s)
              /\ \A c \in Cpus : n \notin Collected(c)

\* Two bindings of different CPUs have both scanned past a node of their
\* space, and its callback ran from shootdown().
C2_Witness ==
    \E n \in Nodes, b1 \in Bindings, b2 \in Bindings :
        /\ b1[1] # b2[1]
        /\ called[n] = 1 /\ calledBy[n] = "shootdown"
        /\ Grab(b1) = nodeSpace[n] /\ Grab(b2) = nodeSpace[n]
        /\ alreadyShotSequence[b1] = nodeSeq[n]
        /\ alreadyShotSequence[b2] = nodeSeq[n]
        /\ nodeSeq[n] > 0

\* ------------------------------------------------------------------------
\* C3. When a node's callback has been invoked, no binding that was counted
\* when the node was enqueued still may hold a translation of its pages:
\* each has invalidated the pages or dropped all its translations since.
\* ------------------------------------------------------------------------
C3_NoStaleTranslationAtCallback ==
    \A n \in Nodes : called[n] >= 1 => owed[n] = {}

\* ------------------------------------------------------------------------
\* C4. While no rebind is in progress, _numBindings of every live space is
\* the number of bindings whose weak reference upgrades to it.
\* ------------------------------------------------------------------------
C4_NumBindingsCountsBindings ==
    NoRebind =>
        \A s \in Spaces : alive[s] =>
            numBindings[s] = Cardinality({ b \in Bindings : Grab(b) = s })

\* A space that bindings have left again (it numbered nodes, so it had
\* bindings) next to a space bound on both CPUs.
C4_Witness ==
    /\ NoRebind
    /\ \E s1 \in Spaces, s2 \in Spaces :
          /\ alive[s1] /\ numBindings[s1] = 0 /\ shootSequence[s1] > 0
          /\ alive[s2] /\ numBindings[s2] = 2

\* ------------------------------------------------------------------------
\* C5. Between calls, the counter of every node still queued on a space is
\* the number of bindings bound to the space whose _alreadyShotSequence is
\* strictly below the node's sequence.
\* ------------------------------------------------------------------------
C5_CounterCountsBehindBindings ==
    AllIdle =>
        \A s \in Spaces : alive[s] =>
            \A n \in Queued(s) :
                bindingsToShoot[n] =
                    Cardinality({ b \in Bindings :
                        Grab(b) = s /\ alreadyShotSequence[b] < nodeSeq[n] })

\* ------------------------------------------------------------------------
\* C6. Every shoot queue is strictly ascending by sequence, front to back,
\* and every queued sequence is below the space's _shootSequence.
\* ------------------------------------------------------------------------
C6_QueueSortedBelowSequence ==
    \A s \in Spaces :
        /\ \A i \in 1 .. Len(shootQueue[s]), j \in 1 .. Len(shootQueue[s]) :
              i < j => nodeSeq[shootQueue[s][i]] < nodeSeq[shootQueue[s][j]]
        /\ \A n \in Queued(s) : nodeSeq[n] < shootSequence[s]

\* A queue of two nodes.
C6_Witness == \E s \in Spaces : Len(shootQueue[s]) >= 2

\* ------------------------------------------------------------------------
\* C7. submitShootdown on a space without bindings invokes the callback
\* once, and leaves _shootSequence, the queue and _numBindings alone and
\* requests no IPI.
\* ------------------------------------------------------------------------
C7_SubmitWithoutBindings ==
    [][ \A n \in Nodes, s \in Spaces :
          (Submits(n, s) /\ numBindings[s] = 0) =>
              /\ called'[n] = called[n] + 1
              /\ calledBy'[n] = "submit"
              /\ \A m \in Nodes \ {n} : called'[m] = called[m]
              /\ shootSequence' = shootSequence
              /\ shootQueue' = shootQueue
              /\ numBindings' = numBindings
              /\ bindingsToShoot' = bindingsToShoot
              /\ ipi' = ipi ]_vars

\* A node was completed by submitShootdown itself on a space that had
\* bindings before (it numbered a node).
C7_Witness ==
    \E n \in Nodes :
        /\ called[n] = 1 /\ calledBy[n] = "submit" /\ ~ipi[n]
        /\ shootSequence[nodeSpace[n]] > 0

C9_RebindHandsOffPending ==
    [][ \A c \in Cpus, k \in Slots :
          (StartsRebind(c, k) /\ Grab(<<c, k>>) # NullSpace) =>
              \A n \in Queued(Grab(<<c, k>>)) :
                  <<c, k>> \in waiting[n] =>
                      /\ bindingsToShoot'[n] = bindingsToShoot[n] - 1
                      /\ bindingsToShoot[n] = 1 =>
                            /\ n \notin Queued(Grab(<<c, k>>))'
                            /\ n \in Collected(c)' ]_vars

\* ------------------------------------------------------------------------
\* C10. shootdown() on a binding whose space is dead invalidates the PCID
\* and clears the weak reference and changes nothing else; on a binding
\* without a space it does nothing.
\* ------------------------------------------------------------------------
C10_ShootdownOfDeadSpace ==
    [][ \A c \in Cpus, i \in Slots :
          ShootdownDead(c, i) =>
              IF boundSpace[<<c, i>>] # NullSpace
              THEN /\ boundSpace' = [boundSpace EXCEPT ![<<c, i>>] = NullSpace]
                   /\ tlb' = [tlb EXCEPT ![<<c, i>>] = NullSpace]
                   /\ UNCHANGED << spaceVars, nodeVars, wasRebound, primaryStamp,
                                   alreadyShotSequence, cpuVars, waiting >>
              ELSE UNCHANGED vars ]_vars

\* A binding that was primary once has no space any more, while the dead
\* space it was bound to still has a node in its queue.
C10_Witness ==
    \E b \in Bindings, s \in Spaces :
        /\ boundSpace[b] = NullSpace /\ primaryStamp[b] > 0
        /\ ~alive[s] /\ shootQueue[s] # << >>
        /\ b \in waiting[shootQueue[s][1]]

\* ------------------------------------------------------------------------
\* C11. activate(s) on a CPU that has a binding bound to s only makes that
\* binding primary: the call is over in this step, no binding changes its
\* space or is marked rebound, no TLB tag is invalidated, and no
\* _numBindings, _alreadyShotSequence, queue or node counter changes.
\* ------------------------------------------------------------------------
C11_ActivateKeepsBoundSlot ==
    [][ \A c \in Cpus : pc[c] = "idle" =>
          \A i \in Slots :
             LET s == Grab(<<c, i>>) IN
             (s # NullSpace /\ Activates(c, s)) =>
                 /\ pc'[c] = "idle"
                 /\ primaryBinding'[c] = i
                 /\ primaryStamp' = [primaryStamp EXCEPT ![<<c, i>>] = nextStamp[c]]
                 /\ boundSpace' = boundSpace
                 /\ wasRebound' = [wasRebound EXCEPT ![<<c, i>>] = FALSE]
                 /\ numBindings' = numBindings
                 /\ alreadyShotSequence' = alreadyShotSequence
                 /\ bindingsToShoot' = bindingsToShoot
                 /\ shootQueue' = shootQueue
                 /\ called' = called
                 /\ havePcids(c) =>
                       /\ \A b \in Bindings \ {<<c, i>>} : tlb'[b] = tlb[b]
                       /\ tlb'[<<c, i>>] = s
                       /\ owed' = owed ]_vars

\* On the CPU with PCIDs slot 0 holds space 1 and slot 1 space 2, no other
\* space was ever used, and slot 0 was made primary again after slot 1.
C11_Witness ==
    /\ AllIdle
    /\ boundSpace[<<1, 0>>] = 1 /\ boundSpace[<<1, 1>>] = 2
    /\ primaryStamp[<<1, 1>>] = 2 /\ primaryStamp[<<1, 0>>] = 3
    /\ \A s \in Spaces : s >= 3 => ~Touched(s)

\* ------------------------------------------------------------------------
\* C12. With PCIDs, activate(s) on a CPU without a binding bound to s
\* rebinds the slot with the smallest _primaryStamp, the lowest such slot
\* among equals: the live space it evicts loses one binding, and when the
\* rebind finishes that slot is bound to s, s has one binding more, and
\* every other binding of the CPU keeps its space throughout.
\* ------------------------------------------------------------------------
C12_ActivateEvictsLru ==
    [][ \A c \in Cpus : havePcids(c) =>
          /\ \A k \in Slots : StartsRebind(c, k) =>
                /\ \A i \in Slots : Grab(<<c, i>>) # loc'[c].space
                /\ \A i \in Slots : primaryStamp[<<c, k>>] <= primaryStamp[<<c, i>>]
                /\ \A i \in Slots : i < k => primaryStamp[<<c, k>>] < primaryStamp[<<c, i>>]
                /\ \A s \in Spaces :
                      numBindings'[s] = IF s = Grab(<<c, k>>) THEN numBindings[s] - 1
                                        ELSE numBindings[s]
                /\ boundSpace' = boundSpace
          /\ FinishesRebind(c) =>
                /\ boundSpace' = [boundSpace EXCEPT ![<<c, loc[c].k>>] = loc[c].space]
                /\ numBindings' = [numBindings EXCEPT ![loc[c].space] = numBindings[loc[c].space] + 1]
                /\ primaryBinding'[c] = loc[c].k ]_vars

\* The CPU with PCIDs had space 1 in slot 0 and space 2 in slot 1, and has
\* evicted space 1, which is alive and without bindings, for space 3.
C12_Witness ==
    /\ AllIdle
    /\ boundSpace[<<1, 0>>] = 3 /\ boundSpace[<<1, 1>>] = 2
    /\ primaryStamp[<<1, 0>>] = 3 /\ primaryStamp[<<1, 1>>] = 2
    /\ alive[1] /\ numBindings[1] = 0 /\ numBindings[3] = 1

\* ------------------------------------------------------------------------
\* C13. On a CPU without PCIDs only slot 0 is ever bound or made primary:
\* every other slot stays unbound, is never marked rebound, is never the
\* primary binding and keeps _primaryStamp 0.
\* ------------------------------------------------------------------------
C13_NoPcidUsesSlotZero ==
    \A c \in Cpus : ~havePcids(c) =>
        /\ primaryBinding[c] \in {NullBinding, 0}
        /\ pc[c] \in {"rb_complete", "rb_bind"} => loc[c].k = 0
        /\ \A i \in Slots \ {0} :
              /\ boundSpace[<<c, i>>] = NullSpace
              /\ ~wasRebound[<<c, i>>]
              /\ primaryStamp[<<c, i>>] = 0
              /\ tlb[<<c, i>>] = NullSpace

\* The CPU without PCIDs has switched from space 1 to space 2 and back to
\* space 1.
C13_Witness ==
    \E c \in Cpus :
        /\ ~havePcids(c) /\ pc[c] = "idle"
        /\ boundSpace[<<c, 0>>] = 1 /\ primaryStamp[<<c, 0>>] = 3
        /\ numBindings[2] = 0 /\ Touched(2)

\* ------------------------------------------------------------------------
\* Vocabulary of the page-table properties: the four-level walk that the
\* MMU does, on a memory m from a root table.
\* ------------------------------------------------------------------------

\* The entries of pointer at the four levels, PML4 first; below an absent
\* entry the walk reads nothing, and the levels below are given as zero.
Walk(m, root, pointer) ==
    LET e4 == Load(m, root, Index4(pointer))
        e3 == IF Test(e4, kPagePresent)
              THEN Load(m, AddressOf(e4), Index3(pointer)) ELSE Entry(0)
        e2 == IF Test(e3, kPagePresent)
              THEN Load(m, AddressOf(e3), Index2(pointer)) ELSE Entry(0)
        e1 == IF Test(e2, kPagePresent)
              THEN Load(m, AddressOf(e2), Index1(pointer)) ELSE Entry(0)
    IN  << e4, e3, e2, e1 >>

\* The walk finds a Present entry at every level.
Translated(m, root, pointer) ==
    LET w == Walk(m, root, pointer) IN \A j \in 1 .. 4 : Test(w[j], kPagePresent)

\* Another page-table function can be called: none has failed an assertion
\* and the run has operations left.
Callable == failed = 0 /\ ptOps < MaxPtOps

\* The states in which the properties call a map with every combination of
\* arguments.
FullyCallable == Callable /\ ptOps < FullCalls

\* The place of the leaf entry of pointer, if the three levels above it are
\* present.
LeafSlot(m, root, pointer) ==
    << AddressOf(Walk(m, root, pointer)[3]), Index1(pointer) >>

\* The cache bits that are set in an entry.
CacheBits(e) == { b \in {kPagePwt, kPagePcd, kPagePat} : Test(e, b) }

\* The leaf is the one a map with these arguments installs, by the table of
\* attribute encodings.
LeafEncodes(e, physical, flags, caching_mode) ==
    /\ AddressOf(e) = physical
    /\ Test(e, kPageWrite) = HasFlag(flags, page_access_write)
    /\ e.xd = ~HasFlag(flags, page_access_execute)
    /\ caching_mode = "writeThrough" => CacheBits(e) = {kPagePwt}
    /\ caching_mode = "writeCombine" => CacheBits(e) = {kPagePat, kPagePwt}
    /\ caching_mode \in {"writeBack", "null"} => CacheBits(e) = {}

\* The page of a key of the history, and the arguments a property calls the
\* map functions with.
PointerOf(key) == [hi |-> key[2], page |-> key[3], off |-> 0]

Arguments ==
    { p \in Physicals : p % kPageSize = 0 } \X AccessFlags \X CachingModes

\* The flags and caching modes of the calls by which a property examines
\* the walk above the leaf, which reads neither: a mode that the leaf code
\* accepts and one that it does not.
WalkAttributes == AccessFlags \X {"writeBack", "uncached"}

\* ------------------------------------------------------------------------
\* C14. After a mapSingle4k of the kernel space or of a client space has
\* returned, and until the page is unmapped, the walk of the page from the
\* space's root finds a Present entry at every level and a leaf that holds
\* the physical address and encodes the flags and the caching mode. Stated
\* of every mapping that is in place, and of the result of a call with any
\* combination of arguments.
\* ------------------------------------------------------------------------
C14_MapInstallsLeaf ==
    /\ \A key \in DOMAIN mapped :
          LET req == mapped[key]
              root == rootTable(req.by)
          IN  /\ Translated(memory, root, PointerOf(key))
              /\ LeafEncodes(Walk(memory, root, PointerOf(key))[4],
                             req.physical, req.flags, req.caching_mode)
    /\ FullyCallable =>
          \A pointer \in Pointers, a \in Arguments :
              /\ LET r == kernelMapSingle4k(memory, allocated, pointer, a[1], a[2], a[3])
                 IN  r.failed = 0 =>
                        /\ Translated(r.memory, KernelRoot, pointer)
                        /\ LeafEncodes(Walk(r.memory, KernelRoot, pointer)[4], a[1], a[2], a[3])
              /\ \A user_page \in BOOLEAN :
                    LET r == clientMapSingle4k(memory, allocated, pointer, a[1],
                                               user_page, a[2], a[3])
                    IN  r.failed = 0 =>
                           /\ Translated(r.memory, ClientRoot, pointer)
                           /\ LeafEncodes(Walk(r.memory, ClientRoot, pointer)[4],
                                          a[1], a[2], a[3])

\* A mapping of the kernel space and a mapping of the client space are in
\* place after three calls, none of which failed.
C14_Witness ==
    /\ failed = 0 /\ ptOps = MaxPtOps
    /\ \E k1 \in DOMAIN mapped, k2 \in DOMAIN mapped :
          mapped[k1].by = "kernel" /\ mapped[k2].by = "client"

\* ------------------------------------------------------------------------
\* C15. A map with caching mode uncached, in the kernel space or in the
\* client space, succeeds wherever the same map with writeBack would, and
\* installs a leaf with PCD set and PWT and PAT clear.
\* ------------------------------------------------------------------------
C15_UncachedMapSetsPcd ==
    [][ \A pointer \in Pointers, a \in StepArguments :
          a[3] = "uncached" =>
              /\ ( /\ KernelMapSingle4k(pointer, a[1], a[2], a[3])
                   /\ kernelMapSingle4k(memory, allocated, pointer,
                                        a[1], a[2], "writeBack").failed = 0 )
                 => /\ failed' = 0
                    /\ CacheBits(Walk(memory', KernelRoot, pointer)[4]) = {kPagePcd}
              /\ \A user_page \in BOOLEAN :
                   ( /\ ClientMapSingle4k(pointer, a[1], user_page, a[2], a[3])
                     /\ clientMapSingle4k(memory, allocated, pointer, a[1], user_page,
                                          a[2], "writeBack").failed = 0 )
                   => /\ failed' = 0
                      /\ CacheBits(Walk(memory', ClientRoot, pointer)[4]) = {kPagePcd} ]_vars

\* ------------------------------------------------------------------------
\* C16. After unmapSingle4k of the kernel space has returned, the leaf of
\* the page is not Present; after unmapRange in normal mode has returned,
\* the leaf of every page of the range is not Present and isMapped returns
\* false for each of them. Stated of the result of a call with any pointer
\* and size, in every state in which a function can be called.
\* ------------------------------------------------------------------------
C16_UnmapClearsPresent ==
    Callable =>
       \A pointer \in Pointers :
          /\ LET r == kernelUnmapSingle4k(memory, allocated, pointer)
             IN  r.failed = 0 =>
                    ~Test(Load(r.memory, LeafSlot(r.memory, KernelRoot, pointer)[1],
                               Index1(pointer)), kPagePresent)
          /\ \A size \in Sizes :
                LET r == unmapRange(memory, allocated, pointer, size, "normal")
                IN  r.failed = 0 =>
                       \A q \in RangeOf(pointer, size) :
                          /\ ~Test(Load(r.memory, LeafSlot(r.memory, ClientRoot, q)[1],
                                        Index1(q)), kPagePresent)
                          /\ isMapped(r.memory, r.allocated, q).st.failed = 0
                          /\ isMapped(r.memory, r.allocated, q).value = FALSE

\* An unmapRange has returned that covered two mapped pages, one on each
\* side of a page-table boundary: their leaves still hold the frames, not
\* Present.
C16_Witness ==
    /\ failed = 0
    /\ returned.fn = "unmapRange"
    /\ \A q \in {Advance(RangeBase, kPageSize), Advance(RangeBase, 2 * kPageSize)} :
          LET e == Load(memory, LeafSlot(memory, ClientRoot, q)[1], Index1(q))
          IN  AddressOf(e) # 0 /\ ~Test(e, kPagePresent)

\* ------------------------------------------------------------------------
\* C17. Every leaf installed by KernelPageSpace::mapSingle4k has Global set
\* and User clear, and the three entries above it have User clear; every
\* mapping of a client space made with user_page has User set on its leaf
\* and on the three entries above it. Stated of every mapping that is in
\* place, and of the result of a map with any combination of arguments.
\* ------------------------------------------------------------------------
KernelOnly(w) ==
    /\ Test(w[4], kPageGlobal)
    /\ \A j \in 1 .. 4 : ~Test(w[j], kPageUser)

UserVisible(w) == \A j \in 1 .. 4 : Test(w[j], kPageUser)

C17_KernelGlobalClientUser ==
    /\ \A key \in DOMAIN mapped :
          LET req == mapped[key]
              w   == Walk(memory, rootTable(req.by), PointerOf(key))
          IN  /\ req.by = "kernel" => KernelOnly(w)
              /\ (req.by = "client" /\ req.user_page) => UserVisible(w)
    /\ FullyCallable =>
          \A pointer \in Pointers, a \in Arguments :
              /\ LET r == kernelMapSingle4k(memory, allocated, pointer, a[1], a[2], a[3])
                 IN  r.failed = 0 => KernelOnly(Walk(r.memory, KernelRoot, pointer))
              /\ LET r == clientMapSingle4k(memory, allocated, pointer, a[1],
                                            TRUE, a[2], a[3])
                 IN  r.failed = 0 => UserVisible(Walk(r.memory, ClientRoot, pointer))

\* A mapping of the kernel space and a user-visible mapping of the client
\* space are in place.
C17_Witness ==
    /\ failed = 0
    /\ \E k1 \in DOMAIN mapped, k2 \in DOMAIN mapped :
          /\ mapped[k1].by = "kernel"
          /\ mapped[k2].by = "client" /\ mapped[k2].user_page

\* ------------------------------------------------------------------------
\* C18. KernelPageSpace::mapSingle4k of a page that is not mapped, followed
\* by unmapSingle4k of the page.
\* ------------------------------------------------------------------------

\* The places of the four entries the walk of pointer reads.
Path(m, root, pointer) ==
    LET w == Walk(m, root, pointer)
    IN  { << root, Index4(pointer) >>,
          << AddressOf(w[1]), Index3(pointer) >>,
          << AddressOf(w[2]), Index2(pointer) >>,
          << AddressOf(w[3]), Index1(pointer) >> }

\* The memory after the map and the unmap, where both return.
MapThenUnmap(pointer, a) ==
    LET r1 == kernelMapSingle4k(memory, allocated, pointer, a[1], a[2], a[3])
        r2 == kernelUnmapSingle4k(r1.memory, r1.allocated, pointer)
    IN  [ mapFailed |-> r1.failed, unmapFailed |-> r2.failed, memory |-> r2.memory ]

\* C18 as claimed: the map followed by the unmap gives back every page-table
\* entry the value it had before. (No table is ever freed, so the entries
\* reachable from the roots are all the entries of memory.)
C18_MapUnmapRestoresEntries ==
    FullyCallable =>
       \A pointer \in VirtPages, a \in Arguments :
          ~Translated(memory, KernelRoot, pointer) =>
             LET r == MapThenUnmap(pointer, a)
             IN  (r.mapFailed = 0 /\ r.unmapFailed = 0) => r.memory = memory

\* C18 amended: where the map returns, the unmap returns too, and then every
\* page translates as before the map (the page itself is unmapped again);
\* the only entries that changed are the four of the page's path: the three
\* upper ones are Present (tables the map allocated stay), and the leaf is
\* the installed one with Present clear, still holding the frame and the
\* attribute bits.
C18_MapUnmapRestoresTranslation ==
    FullyCallable =>
       \A pointer \in VirtPages, a \in Arguments :
          ~Translated(memory, KernelRoot, pointer) =>
             LET r == MapThenUnmap(pointer, a)
                 w == Walk(r.memory, KernelRoot, pointer)
                 leaf == Load(r.memory, LeafSlot(r.memory, KernelRoot, pointer)[1],
                              Index1(pointer))
             IN  r.mapFailed = 0 =>
                    /\ r.unmapFailed = 0
                    /\ \A q \in VirtPages, root \in {KernelRoot, ClientRoot} :
                          LET before == Walk(memory, root, q)
                              mapped_before == \A j \in 1 .. 4 : Test(before[j], kPagePresent)
                          IN  IF mapped_before
                              THEN Walk(r.memory, root, q) = before
                              ELSE ~Translated(r.memory, root, q)
                    /\ \A key \in DOMAIN r.memory \cup DOMAIN memory :
                          Load(r.memory, key[1], key[2]) # Load(memory, key[1], key[2])
                             => key \in Path(r.memory, KernelRoot, pointer)
                    /\ \A j \in 1 .. 3 : Test(w[j], kPagePresent)
                    /\ ~Test(leaf, kPagePresent)
                    /\ Test(leaf, kPageGlobal)
                    /\ LeafEncodes(leaf, a[1], a[2], a[3])

\* unmapSingle4k has returned the frame of a page that the kernel had
\* mapped; the leaf still holds the frame, and is not Present.
C18_Witness ==
    /\ failed = 0
    /\ returned = [fn |-> "unmapSingle4k", value |-> 1000 * kPageSize]
    /\ \E pointer \in VirtPages :
          LET leaf == Load(memory, LeafSlot(memory, KernelRoot, pointer)[1], Index1(pointer))
          IN  /\ AddressOf(leaf) = 1000 * kPageSize
              /\ ~Test(leaf, kPagePresent)
              /\ Test(leaf, kPageGlobal)

\* ------------------------------------------------------------------------
\* C19. unmapRange in remap mode never fails one of its presence
\* assertions. Where it returns, the leaves of the pages of the range that
\* were mapped have Present cleared and are otherwise as before, every
\* other entry is as before (pages with an absent entry at any level are
\* skipped, no table is allocated), and a range without a mapping leaves
\* memory as it was. Stated of the result of a call with any pointer and
\* size, in every state in which a function can be called.
\* ------------------------------------------------------------------------

\* The places of the leaves of the mapped pages of a range.
MappedLeaves(m, pointer, size) ==
    { LeafSlot(m, ClientRoot, q) :
          q \in { x \in RangeOf(pointer, size) : Translated(m, ClientRoot, x) } }

C19_RemapSkipsAbsent ==
    Callable =>
       \A pointer \in Pointers, size \in Sizes :
          LET r      == unmapRange(memory, allocated, pointer, size, "remap")
              leaves == MappedLeaves(memory, pointer, size)
          IN  /\ r.failed \notin {577, 584, 591, 597}
              /\ r.allocated = allocated
              /\ r.failed # 0 => r.memory = memory
              /\ r.failed = 0 =>
                    /\ \A key \in leaves :
                          Load(r.memory, key[1], key[2])
                             = AndNot(Load(memory, key[1], key[2]), kPagePresent)
                    /\ \A key \in (DOMAIN memory \cup DOMAIN r.memory) \ leaves :
                          Load(r.memory, key[1], key[2]) = Load(memory, key[1], key[2])
                    /\ leaves = {} => r.memory = memory

\* An unmapRange has returned after a single map, of the middle page of the
\* range: its leaf still holds the frame, not Present, and the leaves of
\* the pages before and after it, which were never mapped, are zero.
C19_Witness ==
    /\ failed = 0 /\ ptOps = 2
    /\ returned.fn = "unmapRange"
    /\ LET leaf(q) == Load(memory, LeafSlot(memory, ClientRoot, q)[1], Index1(q))
       IN  /\ leaf(RangeBase) = Entry(0)
           /\ AddressOf(leaf(Advance(RangeBase, kPageSize))) # 0
           /\ ~Test(leaf(Advance(RangeBase, kPageSize)), kPagePresent)
           /\ leaf(Advance(RangeBase, 2 * kPageSize)) = Entry(0)

\* ------------------------------------------------------------------------
\* C20. ClientPageSpace::isMapped.
\* ------------------------------------------------------------------------

\* isMapped(pointer) called in this state returns, with the value true
\* exactly when the entries of pointer at all four levels are Present, and
\* has changed no entry and allocated nothing.
ReportsPresence(pointer) ==
    LET r == isMapped(memory, allocated, pointer)
    IN  /\ r.st.failed = 0
        /\ r.value = Translated(memory, ClientRoot, pointer)
        /\ r.st.memory = memory
        /\ r.st.allocated = allocated

\* C20 as claimed: isMapped reports the presence of the four entries, fails
\* no assertion and modifies no entry, for every virt.
C20_IsMappedAnyPointer ==
    Callable => \A pointer \in Pointers : ReportsPresence(pointer)

\* C20 amended: isMapped reports the presence of the four entries, fails no
\* assertion and modifies no entry, for every virt that is page-aligned.
C20_IsMappedAlignedPointer ==
    Callable =>
       \A pointer \in Pointers : PageAligned(pointer) => ReportsPresence(pointer)

\* isMapped has returned true: a page has Present entries at all four
\* levels of the client space.
C20_Witness ==
    /\ failed = 0
    /\ returned.fn = "isMapped"
    /\ returned.value = TRUE
    /\ \E q \in VirtPages : Translated(memory, ClientRoot, q)

\* ------------------------------------------------------------------------
\* C21. KernelPageSpace::unmapSingle4k of a page with a mapping in place
\* returns the frame that the map installed; of a page with an entry that
\* is not Present at one of the four levels it fails the assertion of the
\* first such level and does not return. Stated of the result of a call
\* with any page, in every state in which a function can be called.
\* ------------------------------------------------------------------------

\* The line of the assertion of unmapSingle4k that guards level j of the
\* walk (1 for the PML4 entry, 4 for the leaf).
UnmapAssertion(j) == << 402, 407, 412, 416 >>[j]

C21_UnmapReturnsFrame ==
    Callable =>
       \A pointer \in VirtPages :
          LET r   == kernelUnmapSingle4k(memory, allocated, pointer)
              key == LeafKey("kernel", pointer)
              w   == Walk(memory, KernelRoot, pointer)
          IN  /\ (key[1] = "kernel" /\ key \in DOMAIN mapped) =>
                    /\ r.failed = 0
                    /\ AddressOf(Load(r.memory, r.table, Index1(pointer)))
                          = mapped[key].physical
              /\ \A j \in 1 .. 4 :
                    ( /\ ~Test(w[j], kPagePresent)
                      /\ \A i \in 1 .. (j - 1) : Test(w[i], kPagePresent) )
                    => r.failed = UnmapAssertion(j)

\* unmapSingle4k has returned the frame of a mapping, and a second
\* unmapSingle4k, of a page whose leaf is not Present, has failed the
\* assertion on the leaf.
C21_Witness ==
    /\ failed = 416
    /\ returned = [fn |-> "unmapSingle4k", value |-> 1000 * kPageSize]

\* ------------------------------------------------------------------------
\* C22. mapSingle4k, of the kernel space or of a client space, on a page
\* whose leaf is Present (the walk finds all four levels Present) fails an
\* assertion, having modified no entry and allocated no table; with aligned
\* arguments (and, in a client space, user_page equal to the User bit of the
\* three upper entries) the assertion is the one on the leaf. Stated of the
\* result of a call with any arguments, in every state in which a function
\* can be called.
\* ------------------------------------------------------------------------

\* The call ended in a failed assertion and left memory and the allocator
\* as they were.
FailsUntouched(r) ==
    /\ r.failed # 0
    /\ r.memory = memory
    /\ r.allocated = allocated

C22_MapOnPresentLeafAsserts ==
    Callable =>
       \A pointer \in Pointers :
          /\ Translated(memory, KernelRoot, pointer) =>
                \A physical \in Physicals, a \in WalkAttributes :
                   LET r == kernelMapSingle4k(memory, allocated, pointer,
                                              physical, a[1], a[2])
                   IN  /\ FailsUntouched(r)
                       /\ (PageAligned(pointer) /\ physical % kPageSize = 0)
                             => r.failed = 368
          /\ Translated(memory, ClientRoot, pointer) =>
                \A physical \in Physicals, a \in WalkAttributes, user_page \in BOOLEAN :
                   LET r == clientMapSingle4k(memory, allocated, pointer, physical,
                                              user_page, a[1], a[2])
                       w == Walk(memory, ClientRoot, pointer)
                   IN  /\ FailsUntouched(r)
                       /\ ( /\ PageAligned(pointer) /\ physical % kPageSize = 0
                            /\ \A j \in 1 .. 3 : Test(w[j], kPageUser) = user_page )
                             => r.failed = 529

\* A map of a client space has failed the assertion on the leaf: the
\* mapping that was there is in place, and the three tables of its path are
\* all that was ever allocated.
C22_Witness ==
    /\ failed = 529
    /\ allocated = 3
    /\ \E key \in DOMAIN mapped :
          /\ mapped[key].by = "client"
          /\ Translated(memory, ClientRoot, PointerOf(key))

\* ------------------------------------------------------------------------
\* C23. In a client space a map never changes an upper entry that is
\* Present, so its User bit stays as it was created: where user_page
\* differs from the User bit of a Present upper entry of the page's path,
\* the map fails the assertion of the first such level with memory and the
\* allocator untouched; in every case, failed or not, the Present upper
\* entries of the page's path are afterwards what they were. Stated of the result
\* of a call with any arguments, in every state in which a map can be
\* called with them.
\* ------------------------------------------------------------------------

\* The line of the assertion of ClientPageSpace::mapSingle4k on the User bit
\* of level j of the walk (1 for the PML4 entry).
UserAssertion(j) == << 490, 507, 524 >>[j]

\* Level j of the walk is Present with a User bit other than user_page.
Disagrees(w, j, user_page) ==
    Test(w[j], kPagePresent) /\ Test(w[j], kPageUser) # user_page

C23_IntermediateUserBitFixed ==
    FullyCallable =>
       \A pointer \in VirtPages, a \in WalkAttributes, user_page \in BOOLEAN :
          LET r == clientMapSingle4k(memory, allocated, pointer, 1000 * kPageSize,
                                     user_page, a[1], a[2])
              w == Walk(memory, ClientRoot, pointer)
          IN  /\ \A j \in 1 .. 3 :
                    ( /\ Disagrees(w, j, user_page)
                      /\ \A i \in 1 .. (j - 1) : ~Disagrees(w, i, user_page) )
                    => r.failed = UserAssertion(j) /\ FailsUntouched(r)
              /\ \A j \in 1 .. 3 :
                    Test(w[j], kPagePresent)
                       => Walk(r.memory, ClientRoot, pointer)[j] = w[j]

\* A map of a client space has failed the assertion on the User bit of the
\* PML4 entry of a page of the lower half: the mapping that created the
\* entry, not user-visible, is in place and its three tables are all that
\* was allocated.
C23_Witness ==
    /\ failed = 490
    /\ allocated = 3
    /\ \E key \in DOMAIN mapped :
          /\ mapped[key].by = "client" /\ ~mapped[key].user_page
          /\ Index4(PointerOf(key)) < 256
          /\ \A j \in 1 .. 4 :
                ~Test(Walk(memory, ClientRoot, PointerOf(key))[j], kPageUser)

\* ------------------------------------------------------------------------
\* Vocabulary of the lock properties.
\* ------------------------------------------------------------------------

\* The PageSpace locks that CPU c holds.
Held(c) == { s \in Spaces : mutex[s] = c }

\* ------------------------------------------------------------------------
\* C24. No CPU holds the locks of two PageSpaces at the same time, and a
\* CPU that waits for a lock holds none; so whoever holds a lock is at the
\* end of its lock section and releases the lock without waiting: no
\* interleaving of rebind, shootdown and submitShootdown deadlocks.
\* ------------------------------------------------------------------------
C24_OneSpaceLockAtATime ==
    \A c \in Cpus :
       /\ Cardinality(Held(c)) <= 1
       /\ At(c, "lock") => Held(c) = {}
       /\ \A s \in Held(c) : At(c, "unlock") /\ Target(c) = s

\* A CPU is in the second lock section of a rebind that had an old space,
\* and the other CPU waits for that lock.
C24_Witness ==
    \E c \in Cpus, d \in Cpus :
       /\ At(c, "unlock") /\ Top(c).fn = "rebind"
       /\ Top(c).unbound # NullSpace /\ Top(c).ip = 5
       /\ mutex[Top(c).space] = c
       /\ At(d, "lock") /\ Target(d) = Top(c).space

\* ------------------------------------------------------------------------
\* C25. Completion callbacks are invoked while the CPU holds no PageSpace
\* lock, in rebind, shootdown and submitShootdown; a submitShootdown that a
\* callback calls never waits for a lock its own CPU holds.
\* ------------------------------------------------------------------------
C25_CallbacksOutsideLocks ==
    \A c \in Cpus :
       /\ At(c, "callbacks") => Held(c) = {}
       /\ (At(c, "lock") /\ Len(stack[c]) > 1) => mutex[Target(c)] # c

\* A callback of shootdown() has called submitShootdown on the space that
\* was shot down, and that call is in its lock section.
C25_Witness ==
    \E c \in Cpus :
       /\ Len(stack[c]) = 2
       /\ stack[c][1].fn = "shootdown"
       /\ stack[c][2].space = stack[c][1].space
       /\ At(c, "unlock") /\ mutex[stack[c][1].space] = c

\* ------------------------------------------------------------------------
\* C26. makePrimary on slot i of CPU c (at the end of either path of
\* activate) moves rootTable | pcid, with bit 63 set iff the CPU has PCIDs,
\* to %cr3 if _wasRebound is set or the slot is not the CPU's primary
\* binding, and otherwise leaves %cr3 and the translations of every other
\* slot alone; in both cases _wasRebound is false afterwards, _primaryStamp
\* is the previous _nextStamp, _nextStamp has grown by one and the slot is
\* the primary binding.
\* ------------------------------------------------------------------------
C26_MakePrimary ==
    [][ \A c \in Cpus : nextStamp'[c] # nextStamp[c] =>
          \A i \in Slots :
             ( \/ pc[c] = "rb_bind" /\ loc[c].k = i /\ ActivateFinish(c)
               \/ pc[c] = "idle" /\ Grab(<<c, i>>) # NullSpace
                     /\ ActivateBound(c, Grab(<<c, i>>)) )
             => /\ IF wasRebound[<<c, i>>] \/ primaryBinding[c] # i
                   THEN cr3'[c] = [ root    |-> boundSpace'[<<c, i>>],
                                    pcid    |-> Pcid(c, i),
                                    noflush |-> havePcids(c) ]
                   ELSE /\ cr3'[c] = cr3[c]
                        /\ owed' = owed
                        /\ \A x \in Bindings \ {<<c, i>>} : tlb'[x] = tlb[x]
                /\ ~wasRebound'[<<c, i>>]
                /\ primaryStamp'[<<c, i>>] = nextStamp[c]
                /\ nextStamp'[c] = nextStamp[c] + 1
                /\ primaryBinding'[c] = i ]_vars

\* The CPU with PCIDs has bound both slots and made slot 0 primary again,
\* which wrote %cr3 for a slot that was not rebound; a further activate of
\* the same space then left %cr3 alone.
C26_Witness ==
    /\ pc[1] = "idle"
    /\ boundSpace[<<1, 0>>] = 1 /\ boundSpace[<<1, 1>>] = 2
    /\ primaryStamp[<<1, 1>>] = 2 /\ primaryStamp[<<1, 0>>] = 4
    /\ nextStamp[1] = 5
    /\ cr3[1] = [root |-> 1, pcid |-> Pcid(1, 0), noflush |-> TRUE]

\* ------------------------------------------------------------------------
\* Nodes that were queued on the space of binding b before b's current
\* rebind read _shootSequence.
Early(b) ==
    IF Grab(b) = NullSpace THEN {}
    ELSE { n \in Queued(Grab(b)) : nodeSeq[n] < snapshot[b] }

\* C27: a binding never decrements bindingsToShoot of a node that was
\* enqueued on its space before its current rebind took the snapshot of
\* _shootSequence: in every state, the nodes a scan by the binding would
\* visit exclude all such nodes, and the scan leaves their counters as they
\* are.
C27_EarlierNodesUntouched ==
    \A b \in Bindings :
       (Grab(b) # NullSpace /\ b \notin Rebinding) =>
          LET q == shootQueue[Grab(b)]
              scan == ScanQueue(q, alreadyShotSequence[b])
          IN  \A n \in Early(b) :
                 /\ n \notin scan.visited
                 /\ scan.bts[n] = bindingsToShoot[n]

\* Two nodes are queued, a binding joined the space after both, and a later
\* shootdown on it moved its cursor; the younger node is still queued.
C27_Witness ==
    \E b \in Bindings : \E n \in Early(b) :
       /\ nodeSeq[n] >= 1
       /\ alreadyShotSequence[b] < snapshot[b]
       /\ pc[b[1]] = "idle"

\* C28: for each submission of a node every binding decrements its
\* bindingsToShoot at most once, shootdown() and rebind() counted together:
\* the nodes a scan by a binding would visit, whenever its CPU is free to
\* start one, are nodes that counted the binding at enqueue and that it has
\* not visited since; so the counter of a
\* queued node is at least 1 and at most the number of bindings, never the
\* wrapped value.
C28_DecrementedAtMostOnce ==
    /\ \A b \in Bindings :
          (Grab(b) # NullSpace /\ pc[b[1]] = "idle") =>
             \A n \in ScanQueue(shootQueue[Grab(b)], alreadyShotSequence[b]).visited :
                b \in waiting[n]
    /\ \A s \in Spaces : \A n \in Queued(s) :
          /\ bindingsToShoot[n] >= 1
          /\ bindingsToShoot[n] <= Cardinality(Bindings)

\* A node was enqueued while binding b was counted on its space; b has
\* visited it once in a shootdown and is still bound, the node is still
\* queued and waits for one other binding.
C28_Witness ==
    \E b \in Bindings : \E n \in Nodes :
       /\ Grab(b) # NullSpace /\ pc[b[1]] = "idle"
       /\ n \in Queued(Grab(b))
       /\ nodeSeq[n] >= snapshot[b]
       /\ b \notin waiting[n]
       /\ Cardinality(waiting[n]) = 1
       /\ bindingsToShoot[n] = 1
       /\ alreadyShotSequence[b] = nodeSeq[n]

\* C29: while a binding stays bound to the same space its
\* _alreadyShotSequence never decreases: no step that leaves the binding's
\* space as it is lowers the cursor, including a shootdown() whose scan
\* visits no node.
C29_CursorNeverDecreases ==
    [][ \A b \in Bindings :
          (boundSpace[b] # NullSpace /\ boundSpace'[b] = boundSpace[b])
             => alreadyShotSequence'[b] >= alreadyShotSequence[b] ]_vars

\* C30: for two nodes A and B enqueued on the same space with
\* A._sequence < B._sequence, B's callback is never invoked before A's: in
\* no state has shotDown(B) been called while shotDown(A) has not, and a
\* scan that visits B while its binding is still counted in A visits A too.
C30_CallbacksInSequenceOrder ==
    \A A, B \in Nodes :
       ( /\ ipi[A] /\ ipi[B]
         /\ nodeSpace[A] = nodeSpace[B]
         /\ nodeSeq[A] < nodeSeq[B] )
       => /\ called[B] >= 1 => called[A] >= 1
          /\ \A b \in Bindings :
                (Grab(b) = nodeSpace[B] /\ pc[b[1]] = "idle" /\ b \in waiting[A]) =>
                   LET vis == ScanQueue(shootQueue[Grab(b)], alreadyShotSequence[b]).visited
                   IN  B \in vis => A \in vis

\* ------------------------------------------------------------------------
\* The step executes invalidatePcid on binding b: every translation held
\* under the slot's tag is dropped at once (a %cr3 write replaces them by
\* those of a space instead).
InvalidatesPcid(b) == tlb[b] # NullSpace /\ tlb'[b] = NullSpace

\* C31: invalidatePcid is issued only on CPUs where havePcids is true: no
\* step of rebind() or shootdown(), the dead-space path included, executes
\* it on a binding of a CPU without PCIDs.
C31_InvalidatePcidOnlyWithPcids ==
    [][ \A b \in Bindings : InvalidatesPcid(b) => havePcids(b[1]) ]_vars

\* C32: no two bindings of one CPU are bound to the same live space, so
\* _numBindings of a space never exceeds the number of CPUs.
C32_OneBindingPerCpuAndSpace ==
    /\ \A c \in Cpus : \A i, j \in Slots :
          (i # j /\ Grab(<<c, i>>) # NullSpace) => Grab(<<c, i>>) # Grab(<<c, j>>)
    /\ \A s \in Spaces : numBindings[s] <= Cardinality(Cpus)

\* Both CPUs are bound to space 1; the CPU with PCIDs holds space 2 in its
\* other slot and has activated space 1 again since.
C32_Witness ==
    /\ AllIdle
    /\ Grab(<<1, 0>>) = 1 /\ Grab(<<1, 1>>) = 2 /\ Grab(<<2, 0>>) = 1
    /\ numBindings[1] = Cardinality(Cpus)
    /\ primaryStamp[<<1, 0>>] = 3

\* C33: when activate(s) returns on CPU c, the CPU's primary binding is
\* bound to s and %cr3 holds s's root table with the pcid of that binding,
\* also when makePrimary skipped the write to %cr3.
C33_ActivateLeavesSpaceInCr3 ==
    [][ \A c \in Cpus : nextStamp'[c] # nextStamp[c] =>
          \A s \in Spaces :
             (ActivateBound(c, s) \/ (loc[c].space = s /\ ActivateFinish(c))) =>
                LET i == primaryBinding'[c] IN
                /\ i \in Slots
                /\ boundSpace'[<<c, i>>] = s /\ alive'[s]
                /\ cr3'[c] = Cr3Value(c, i, s) ]_vars

\* The CPU with PCIDs activated space 1 twice in a row: the second call
\* found slot 0 bound, primary and not rebound, and skipped the write.
C33_Witness ==
    /\ pc[1] = "idle"
    /\ Grab(<<1, 0>>) = 1
    /\ primaryBinding[1] = 0
    /\ primaryStamp[<<1, 0>>] = 2 /\ primaryStamp[<<1, 1>>] = 0
    /\ nextStamp[1] = 3
    /\ cr3[1] = Cr3Value(1, 0, 1)

\* C34: on every CPU the primary binding has the strictly largest
\* _primaryStamp; the bindings that have been made primary have pairwise
\* distinct non-zero stamps below _nextStamp; and with PCIDs the slot that
\* activate would rebind is bound to a space only if no slot of the CPU
\* still has stamp 0.
C34_StampsOrderBindings ==
    \A c \in Cpus :
       /\ primaryBinding[c] # NullBinding =>
             \A j \in Slots \ {primaryBinding[c]} :
                primaryStamp[<<c, j>>] < primaryStamp[<<c, primaryBinding[c]>>]
       /\ \A i \in Slots :
             /\ primaryStamp[<<c, i>>] < nextStamp[c]
             /\ \A j \in Slots \ {i} :
                   primaryStamp[<<c, i>>] # 0 => primaryStamp[<<c, i>>] # primaryStamp[<<c, j>>]
             /\ (primaryBinding[c] = i \/ boundSpace[<<c, i>>] # NullSpace)
                   => primaryStamp[<<c, i>>] # 0
       /\ (havePcids(c) /\ pc[c] = "idle") =>
             \A s \in Spaces :
                LET scan == ActivateScan(c, s, 0, 0) IN
                (~scan.found /\ boundSpace[<<c, scan.slot>>] # NullSpace) =>
                   \A j \in Slots : primaryStamp[<<c, j>>] # 0

\* The CPU with PCIDs has activated three spaces: the third call evicted
\* space 1 from slot 0 when both slots had been primary.
C34_Witness ==
    /\ pc[1] = "idle"
    /\ boundSpace[<<1, 0>>] = 3 /\ boundSpace[<<1, 1>>] = 2
    /\ primaryStamp[<<1, 0>>] = 3 /\ primaryStamp[<<1, 1>>] = 2
    /\ primaryBinding[1] = 0
    /\ nextStamp[1] = 4

====
